---- MODULE Spec2Model ----
(***************************************************************************)
(* A model of the geostat inference core: parameter checking at Model      *)
(* construction (model.py check_parameters / Model.__post_init__), the     *)
(* Model operations fit / mcmc / generate / predict (model.py), and the    *)
(* covariance assembly over the kernel graph (kernel.py, model.py          *)
(* gp_covariance2).  Numbers are integers: kernels whose values are exact  *)
(* in integer arithmetic (Noise, Delta, Wiener, Stack, Product, Mux) are   *)
(* modelled, the transcendental ones are not.                              *)
(***************************************************************************)
EXTENDS Integers, Sequences, FiniteSets, TLC

VARIABLES
    phase,      \* which operation ran last in the current scenario
    gp,         \* the GP handed to Model(): [nodes, mean, kernel]
    values,     \* the parameter dictionary handed to Model()
    built,      \* outcome of Model.__post_init__
    cache,      \* the inputs of one covariance assembly (gp_covariance2)
    cov,        \* the (M, C) one covariance assembly returned
    tiebreak,   \* how np.argsort orders equal labels on this platform
    models,     \* the Model objects that exist, in order of creation
    ret,        \* the last call on a Model: arguments, outcome, work done
    calls,      \* number of calls made so far
    seen        \* an earlier predict call, kept to compare a later one with

vars == <<phase, gp, values, built, cache, cov, tiebreak, models, ret, calls, seen>>

None == "None"

(***************************************************************************)
(* Bounds of the model.                                                    *)
(***************************************************************************)
MaxBound == 2        \* declared bounds lo, hi range over 0..MaxBound
MaxValue == 2        \* supplied parameter values range over 0..MaxValue
MaxDraws == 2        \* longest array-valued parameter (posterior draws)
MaxCoord == 1        \* location coordinates range over 0..MaxCoord
MaxRows == 3         \* most rows of a location batch in an assembly
MaxTrain == 2        \* rows of the batches given to fit, mcmc and generate
MaxIters == 2        \* fit is called with iters in 0..MaxIters
MaxSamples == 2      \* mcmc is called with samples in 0..MaxSamples
MaxModels == 3       \* Model objects alive in one scenario
MaxCalls == 1        \* calls made in one scenario
MaxRepeat == 3       \* calls made in a scenario that repeats a predict call
MaxQuery == 3        \* rows of a permuted query batch
PredictRows == 4     \* rows of the training set the permuted queries run against
MaxPosterior == 4    \* draws held by a Model whose draws predict combines
MaxMixRows == 2      \* most rows of a batch a Mix is evaluated on
MaxWeight == 1       \* weights of a Mix range over 0..MaxWeight
MaxReg == 2          \* fit is given a reg weight in 0..MaxReg, or none
MaxChain == 3        \* calls made one after another from a fresh Model

Range(s) == {s[i] : i \in DOMAIN s}

Max(S) == CHOOSE x \in S : \A y \in S : y <= x
Min(S) == CHOOSE x \in S : \A y \in S : x <= y

(***************************************************************************)
(* Parameters and the GP tree.                                             *)
(***************************************************************************)
ParamNames == {"nugget", "range"}

\* A PaperParameter: a name with its declared bound.
PaperParameter == [name : ParamNames, lo : 0..MaxBound, hi : 0..MaxBound]

\* A node of the operator graph: its kind, the parameters it declares itself
\* (vars()) and its children (Stack.parts, Mux.inputs).
Leaf(pp)   == [kind |-> "Leaf",  vars |-> {pp}, kids |-> <<>>]
NoVars(k)  == [kind |-> k,       vars |-> {},   kids |-> <<>>]
Stack(ks)  == [kind |-> "Stack", vars |-> {},   kids |-> ks]
Mux(ks)    == [kind |-> "Mux",   vars |-> {},   kids |-> ks]

\* The GP trees of the model, built from two declared parameters.
\* Node 1 is the mean, node 2 the root kernel.
GPShapes == {"leaf", "stack", "stackmux", "muxroot", "trend"}

MakeGP(shape, p1, p2) ==
    CASE shape = "leaf" ->
           [mean |-> 1, kernel |-> 2,
            nodes |-> <<NoVars("ZeroTrend"), Leaf(p1)>>]
      [] shape = "stack" ->
           [mean |-> 1, kernel |-> 2,
            nodes |-> <<NoVars("ZeroTrend"), Stack(<<3, 4>>), Leaf(p1), Leaf(p2)>>]
      [] shape = "stackmux" ->
           [mean |-> 1, kernel |-> 2,
            nodes |-> <<NoVars("ZeroTrend"), Stack(<<3, 4>>), Leaf(p1),
                        Mux(<<5, 3>>), Leaf(p2)>>]
      [] shape = "muxroot" ->
           [mean |-> 1, kernel |-> 2,
            nodes |-> <<NoVars("ZeroTrend"), Mux(<<3, 4>>), Leaf(p1), Leaf(p2)>>]
      [] shape = "trend" ->
           [mean |-> 1, kernel |-> 2,
            nodes |-> <<Leaf(p2), Leaf(p1)>>]

\* Every parameter declared by a node reachable from n (the tree itself).
RECURSIVE Referenced(_, _)
Referenced(nodes, n) ==
    nodes[n].vars \cup
    UNION {Referenced(nodes, nodes[n].kids[i]) : i \in DOMAIN nodes[n].kids}

ReferencedByGP(g) == Referenced(g.nodes, g.mean) \cup Referenced(g.nodes, g.kernel)

\* Op.gather_vars: the node's own vars() and those of the nodes among its
\* autoinputs (Stack.parts; a Mux has none); a call without a cache makes
\* one and hands it to the children.
RECURSIVE OpGatherVars(_, _, _)
RECURSIVE MuxGatherVars(_, _, _)

\* The value of a local variable: the one element of a singleton.  Binding
\* x \in {e} evaluates e once, as the assignment x = e does.
Only(S) == CHOOSE x \in S : TRUE

\* Dynamic dispatch of node.gather_vars(cache).
GatherVars(nodes, n, hasCache) ==
    IF nodes[n].kind = "Mux" THEN MuxGatherVars(nodes, n, hasCache)
                             ELSE OpGatherVars(nodes, n, hasCache)

GatherAll(nodes, ids) ==
    Only({IF \E i \in DOMAIN sub : sub[i].err # None
          THEN [err |-> "TypeError", vars |-> {}]
          ELSE [err |-> None, vars |-> UNION {sub[i].vars : i \in DOMAIN sub}] :
            sub \in {[i \in DOMAIN ids |-> GatherVars(nodes, ids[i], TRUE)]}})

OpGatherVars(nodes, n, hasCache) ==
    Only({IF sub.err # None THEN sub
          ELSE [err |-> None, vars |-> nodes[n].vars \cup sub.vars] :
            sub \in {GatherAll(nodes, IF nodes[n].kind = "Mux" THEN <<>>
                                      ELSE nodes[n].kids)}})

\* Mux.gather_vars (kernel.py): super().gather_vars(cache), then the inputs
\* are added through cache[id(self)], which raises TypeError when the Mux
\* was called without a cache (cache is None).
MuxGatherVars_OwnOnly(nodes, n, hasCache) == OpGatherVars(nodes, n, hasCache)
MuxGatherVars(nodes, n, hasCache) ==
    Only({IF ~hasCache THEN [err |-> "TypeError", vars |-> {}]
          ELSE IF sub.err # None THEN sub
          ELSE [err |-> None, vars |-> vv.vars \cup sub.vars] :
            vv  \in {OpGatherVars(nodes, n, hasCache)},
            sub \in {GatherAll(nodes, nodes[n].kids)}})

\* GP.gather_vars (model.py): mean and kernel are both asked without a cache.
GPGatherVars(g) ==
    Only({IF m.err # None THEN m
          ELSE IF k.err # None THEN k
          ELSE [err |-> None, vars |-> m.vars \cup k.vars] :
            m \in {GatherVars(g.nodes, g.mean, FALSE)},
            k \in {GatherVars(g.nodes, g.kernel, FALSE)}})

(***************************************************************************)
(* check_parameters (model.py).                                            *)
(***************************************************************************)
\* A value of the dictionary is a sequence: one element for a scalar, one
\* element per draw for an array.  np.all is the conjunction over elements.
ValueDomain == UNION {[1..n -> 0..MaxValue] : n \in 1..MaxDraws}

NamesOf(pps) == {pp.name : pp \in pps}

\* lo = np.max([pp.lo ...]), hi = np.min([pp.hi ...]) over the declarations
\* of one name.
EffLo_FirstOnly(pps, name) == Min({pp.lo : pp \in {q \in pps : q.name = name}})
EffLo(pps, name) == Max({pp.lo : pp \in {q \in pps : q.name = name}})
EffHi(pps, name) == Min({pp.hi : pp \in {q \in pps : q.name = name}})

\* The three assertions of the loop body, in order, for one name.
CheckOne(pps, vals, name) ==
    LET lo == EffLo(pps, name)
        hi == EffHi(pps, name)
    IN  IF ~(lo < hi) THEN "Conflicting bounds"
        ELSE IF name \notin DOMAIN vals THEN "missing"
        ELSE IF ~(\A i \in DOMAIN vals[name] : lo <= vals[name][i] /\ vals[name][i] <= hi)
             THEN "out of bounds"
        ELSE None

\* check_parameters: fails on the first name that fails (the order of the
\* names is the iteration order of a set, so any failing name may be first);
\* otherwise returns the Bound of every name.
CheckParametersErrors(pps, vals) ==
    {CheckOne(pps, vals, name) : name \in NamesOf(pps)} \ {None}

CheckParametersOut(pps, vals) ==
    [name \in NamesOf(pps) |-> [lo |-> EffLo(pps, name), hi |-> EffHi(pps, name)]]

(***************************************************************************)
(* Model.__post_init__ : construction.                                     *)
(***************************************************************************)
\* The outcomes construction can have for a GP and a parameter dictionary.
PostInitOutcomes(g, vals) ==
    Only({IF gv.err # None
          THEN {[ok |-> FALSE, err |-> gv.err, space |-> <<>>]}
          ELSE Only({IF errors # {}
                     THEN {[ok |-> FALSE, err |-> e, space |-> <<>>] : e \in errors}
                     ELSE {[ok |-> TRUE, err |-> None,
                            space |-> CheckParametersOut(gv.vars, vals)]} :
                       errors \in {CheckParametersErrors(gv.vars, vals)}}) :
            gv \in {GPGatherVars(g)}})

Dicts == UNION {[D -> ValueDomain] : D \in SUBSET ParamNames}

InitCheck ==
    /\ phase = "new"
    /\ \E shape \in GPShapes, p1 \in PaperParameter, p2 \in PaperParameter :
          /\ p1.name = "nugget"
          /\ gp = MakeGP(shape, p1, p2)
    /\ values \in Dicts
    /\ built = None
    /\ cache = None
    /\ cov = None
    /\ tiebreak = "stable" /\ models = <<>> /\ ret = None /\ calls = 0 /\ seen = <<>>

\* Model(gp, parameters=values)
Construct ==
    /\ phase = "new"
    /\ \E o \in PostInitOutcomes(gp, values) : built' = o
    /\ phase' = "constructed"
    /\ UNCHANGED <<gp, values, cache, cov, tiebreak, models, ret, calls, seen>>

NextCheck == Construct

SpecCheck == InitCheck /\ [][NextCheck]_vars

(***************************************************************************)
(* Properties of construction (SpecCheck).                                 *)
(***************************************************************************)
\* The effective bound of a name over the declarations found in the tree.
DeclaredFor(name) == {pp \in ReferencedByGP(gp) : pp.name = name}
TreeLo(name) == CHOOSE l \in {pp.lo : pp \in DeclaredFor(name)} :
                    \A pp \in DeclaredFor(name) : pp.lo <= l
TreeHi(name) == CHOOSE h \in {pp.hi : pp \in DeclaredFor(name)} :
                    \A pp \in DeclaredFor(name) : h <= pp.hi

Inside(name) ==
    /\ name \in DOMAIN values
    /\ \A i \in DOMAIN values[name] :
          TreeLo(name) <= values[name][i] /\ values[name][i] <= TreeHi(name)

\* C1: construction fails whenever a parameter name referenced by some node
\* of the GP tree is missing from the dictionary or has an element outside
\* the name's effective bound.
C1_MissingOrOutOfBoundFails ==
    (phase = "constructed" /\ \E pp \in ReferencedByGP(gp) : ~Inside(pp.name))
        => ~built.ok

\* C1 witness: a referenced name is missing, or a draw of an array value is
\* out of bound, under a Mux nested in a Stack, and construction has failed.
C1_Witness ==
    /\ phase = "constructed" /\ ~built.ok
    /\ built.err \in {"missing", "out of bounds"}
    /\ gp.nodes[gp.kernel].kind = "Stack"
    /\ \E n \in DOMAIN gp.nodes : gp.nodes[n].kind = "Mux"
    /\ \E pp \in gp.nodes[5].vars : ~Inside(pp.name)
    /\ \A pp \in gp.nodes[3].vars : Inside(pp.name)

\* The dictionary passes the check as the claim C2 words it: every name is
\* present with its value(s) inside the closed interval [max lo, min hi].
C2_PassesClosed == \A pp \in ReferencedByGP(gp) : Inside(pp.name)

\* ... and as the code has it: the interval must also be proper.
C2_PassesProper ==
    \A pp \in ReferencedByGP(gp) :
        TreeLo(pp.name) < TreeHi(pp.name) /\ Inside(pp.name)

\* C2 as stated: when check_parameters is reached, construction succeeds
\* exactly when every value lies in [max(lowers), min(uppers)], the
\* degenerate interval max(lowers) = min(uppers) = value included.
C2_Original ==
    (phase = "constructed" /\ GPGatherVars(gp).err = None)
        => (built.ok <=> C2_PassesClosed)

\* C2 amended: when check_parameters is reached, construction succeeds
\* exactly when for every name max(lowers) < min(uppers) and every value lies
\* in [max(lowers), min(uppers)]; the bounds it returns are that interval.
C2_EffectiveBound ==
    (phase = "constructed" /\ GPGatherVars(gp).err = None)
        => /\ built.ok <=> C2_PassesProper
           /\ built.ok => \A pp \in ReferencedByGP(gp) :
                  built.space[pp.name] = [lo |-> TreeLo(pp.name), hi |-> TreeHi(pp.name)]

\* C16: constructing a Model whose parameter dictionary contains a name that
\* no node of the GP tree references fails as a configuration error.
C16_UnknownNameRejected ==
    (/\ phase = "constructed"
     /\ \E name \in DOMAIN values : \A pp \in ReferencedByGP(gp) : pp.name # name)
        => ~built.ok


\* C26: GP.gather_vars, as Model construction calls it, returns every
\* parameter referenced by any node of the tree, those of the sub-kernels of
\* a Mux included, whether the Mux is nested under a Stack or is itself the
\* root kernel of the GP.
C26_GathersEveryParameter ==
    phase = "constructed" =>
        /\ built.err # "TypeError"
        /\ GPGatherVars(gp) = [err |-> None, vars |-> ReferencedByGP(gp)]

\* C2 witness: two nodes declare the same name with different bounds and
\* construction succeeded with a value on the edge of the intersection.
C2_Witness ==
    /\ phase = "constructed" /\ built.ok
    /\ \E p \in ReferencedByGP(gp), q \in ReferencedByGP(gp) :
          /\ p.name = q.name /\ p.lo < q.lo
          /\ values[p.name] = <<q.lo>>

(***************************************************************************)
(* Kernel nodes and their evaluation (kernel.py).                          *)
(***************************************************************************)
\* np.inf as a bound: larger than every value of the model.
Infinity == MaxValue + MaxBound + 1

\* ppp(name): a positive parameter, bound (0, inf).
ppp(name) == {[name |-> name, lo |-> 0, hi |-> Infinity]}

Noise(nugget) ==
    [kind |-> "Noise", vars |-> ppp(nugget), kids |-> <<>>, fa |-> nugget]
Delta(dsill) ==
    [kind |-> "Delta", vars |-> ppp(dsill), kids |-> <<>>, fa |-> dsill]
Wiener(axis, start) ==
    [kind |-> "Wiener", vars |-> {}, kids |-> <<>>, axis |-> axis, start |-> start]
Product(ks) == [kind |-> "Product", vars |-> {}, kids |-> ks]

RECURSIVE SumSeq(_)
SumSeq(s) == IF s = <<>> THEN 0 ELSE s[1] + SumSeq(Tail(s))

\* PerAxisDist2 (metric.py) summed over the axes: the squared distance.
Dist2(x1, x2) == SumSeq([a \in DOMAIN x1 |-> (x1[a] - x2[a]) * (x1[a] - x2[a])])

\* tf.math.bincount(cats, minlength=N, maxlength=N): the count of each label
\* 0..N-1 (index c+1 holds label c).
BinCount(cats, N) ==
    [c \in 1..N |-> Cardinality({i \in DOMAIN cats : cats[i] = c - 1})]

\* tf.math.cumsum(counts, exclusive=True)
CumSumExclusive(counts) ==
    [c \in DOMAIN counts |-> SumSeq(SubSeq(counts, 1, c - 1))]

\* tf.split(x, counts): the segment (1-based) that holds row i, by position.
SegmentOf(i, counts) ==
    CHOOSE c \in DOMAIN counts :
        LET start == CumSumExclusive(counts)[c]
        IN  start < i /\ i <= start + counts[c]

Matrix(n1, n2, f(_, _)) == [i \in 1..n1 |-> [j \in 1..n2 |-> f(i, j)]]

\* node.run(cache, p) for a kernel node: Kernel.__call__ around the node's
\* call(p, e), as an n1 x n2 matrix.  e holds offset, locs1, locs2 and, at
\* the top level, cats1 and cats2.  The parameter values p are the fractions
\* p.num[name] / p.den (den = 1 unless they are posterior means or medians),
\* and the matrix holds the entries multiplied by p.den.
RECURSIVE KernelRun(_, _, _, _)
RECURSIVE MuxCall(_, _, _, _)

\* Noise.call: nugget where index1 = index2 + offset (0-based indices).
NoiseCall_NoOffset(node, e, p) ==
    Matrix(Len(e.locs1), Len(e.locs2),
           LAMBDA i, j : IF i - 1 = j - 1 THEN p.num[node.fa] ELSE 0)
NoiseCall(node, e, p) ==
    Matrix(Len(e.locs1), Len(e.locs2),
           LAMBDA i, j : IF i - 1 = (j - 1) + e.offset THEN p.num[node.fa] ELSE 0)

\* Delta.call with axes=None: dsill where the two points coincide.
DeltaCall(node, e, p) ==
    Matrix(Len(e.locs1), Len(e.locs2),
           LAMBDA i, j : IF Dist2(e.locs1[i], e.locs2[j]) = 0 THEN p.num[node.fa] ELSE 0)

\* Wiener.call: min(x1, x2) - start along one axis.
WienerCall(node, e, p) ==
    Matrix(Len(e.locs1), Len(e.locs2),
           LAMBDA i, j :
              p.den * (Min({e.locs1[i][node.axis], e.locs2[j][node.axis]}) - node.start))

\* Stack.call: tf.reduce_sum(e['parts'], axis=0).
StackCall(nodes, node, e, p) ==
    LET parts == [k \in DOMAIN node.kids |-> KernelRun(nodes, node.kids[k], e, p)]
    IN  Matrix(Len(e.locs1), Len(e.locs2),
               LAMBDA i, j : SumSeq([k \in DOMAIN parts |-> parts[k][i][j]]))

\* Product.call: tf.reduce_sum(e['parts'], axis=0), as in Stack.
ProductCall_Multiply(nodes, node, e, p) ==
    LET parts == [k \in DOMAIN node.kids |-> KernelRun(nodes, node.kids[k], e, p)]
        RECURSIVE Times(_)
        Times(s) == IF s = <<>> THEN 1 ELSE s[1] * Times(Tail(s))
    IN  Matrix(Len(e.locs1), Len(e.locs2),
               LAMBDA i, j : Times([k \in DOMAIN parts |-> parts[k][i][j]]))
ProductCall(nodes, node, e, p) ==
    LET parts == [k \in DOMAIN node.kids |-> KernelRun(nodes, node.kids[k], e, p)]
    IN  Matrix(Len(e.locs1), Len(e.locs2),
               LAMBDA i, j : SumSeq([k \in DOMAIN parts |-> parts[k][i][j]]))

\* The offset in the cache Mux.call builds for input c:
\* e['offset'] + catdiff, with catdiffs = catindices2 - catindices1.
MuxOffset_Outer(e, catindices1, catindices2, c) == e.offset
MuxOffset(e, catindices1, catindices2, c) ==
    e.offset + (catindices2[c] - catindices1[c])

\* Mux.call: the batches are split by the label counts into consecutive
\* segments, each input runs on its pair of segments with its own cache and
\* offset, and block_diag lays the results out with zeros elsewhere.
MuxCall_Dense(nodes, node, e, p) ==
    LET parts == [k \in DOMAIN node.kids |-> KernelRun(nodes, node.kids[k], e, p)]
    IN  Matrix(Len(e.locs1), Len(e.locs2),
               LAMBDA i, j : parts[SegmentOf(i, BinCount(e.cats1, Len(node.kids)))][i][j])
MuxCall(nodes, node, e, p) ==
    LET N == Len(node.kids)
        catcounts1 == BinCount(e.cats1, N)
        catcounts2 == BinCount(e.cats2, N)
        catindices1 == CumSumExclusive(catcounts1)
        catindices2 == CumSumExclusive(catcounts2)
        sub(c) == [offset |-> MuxOffset(e, catindices1, catindices2, c),
                   locs1 |-> SubSeq(e.locs1, catindices1[c] + 1, catindices1[c] + catcounts1[c]),
                   locs2 |-> SubSeq(e.locs2, catindices2[c] + 1, catindices2[c] + catcounts2[c])]
        CC == [c \in 1..N |-> KernelRun(nodes, node.kids[c], sub(c), p)]
    IN  Matrix(Len(e.locs1), Len(e.locs2),
               LAMBDA i, j :
                  LET c1 == SegmentOf(i, catcounts1)
                      c2 == SegmentOf(j, catcounts2)
                  IN  IF c1 = c2 THEN CC[c1][i - catindices1[c1]][j - catindices2[c2]]
                                 ELSE 0)

KernelRun(nodes, n, e, p) ==
    LET node == nodes[n]
    IN  CASE node.kind = "Noise"   -> NoiseCall(node, e, p)
          [] node.kind = "Delta"   -> DeltaCall(node, e, p)
          [] node.kind = "Wiener"  -> WienerCall(node, e, p)
          [] node.kind = "Stack"   -> StackCall(nodes, node, e, p)
          [] node.kind = "Product" -> ProductCall(nodes, node, e, p)
          [] node.kind = "Mux"     -> MuxCall(nodes, node, e, p)

\* A dictionary of plain numbers as parameter values.
Scalars(dict) == [num |-> dict, den |-> 1]

\* ZeroTrend: the default mean, identically zero.
MeanRun(nodes, n, e, p) == [i \in 1..Len(e.locs1) |-> 0]

\* gp_covariance2 (model.py): one cache, then mean and kernel run on it.
GpCovariance2(g, locs1, cats1, locs2, cats2, offset, p) ==
    LET e == [offset |-> offset, locs1 |-> locs1, locs2 |-> locs2,
              cats1 |-> cats1, cats2 |-> cats2]
    IN  [M |-> MeanRun(g.nodes, g.mean, e, p),
         C |-> KernelRun(g.nodes, g.kernel, e, p)]

\* gp_covariance (model.py)
GpCovariance(g, locs, cats, p) == GpCovariance2(g, locs, cats, locs, cats, 0, p)

(***************************************************************************)
(* Exact arithmetic and linear algebra for prediction.                     *)
(***************************************************************************)
Abs(x) == IF x < 0 THEN 0 - x ELSE x

RECURSIVE Gcd(_, _)
Gcd(a, b) == IF b = 0 THEN a ELSE Gcd(b, a % b)

\* The fraction n / d (d # 0) in lowest terms with a positive denominator.
Frac(n, d) ==
    LET nn == IF d < 0 THEN 0 - n ELSE n
        dd == Abs(d)
        g  == Gcd(Abs(nn), dd)
    IN  <<nn \div g, dd \div g>>

\* Sum, difference and product of fractions in lowest terms, over the least
\* common denominator and with the common factors cancelled first.
RAdd(a, b) ==
    Only({Frac(a[1] * (b[2] \div g) + b[1] * (a[2] \div g), (a[2] \div g) * b[2]) :
             g \in {Gcd(a[2], b[2])}})
RSub(a, b) == RAdd(a, <<0 - b[1], b[2]>>)
RMul(a, b) ==
    Only({Frac((a[1] \div g) * (b[1] \div h), (a[2] \div h) * (b[2] \div g)) :
             g \in {Gcd(Abs(a[1]), b[2])}, h \in {Gcd(Abs(b[1]), a[2])}})

RECURSIVE RSum(_)
RSum(s) == IF s = <<>> THEN <<0, 1>> ELSE RAdd(s[1], RSum(Tail(s)))

Sign(k) == IF k % 2 = 0 THEN 1 ELSE 0 - 1

\* A without row r and column c.
Minor(A, n, r, c) ==
    [i \in 1..(n - 1) |->
        [j \in 1..(n - 1) |-> A[IF i < r THEN i ELSE i + 1][IF j < c THEN j ELSE j + 1]]]

RECURSIVE Det(_, _)
Det(A, n) ==
    IF n = 0 THEN 1
    ELSE IF n = 1 THEN A[1][1]
    ELSE SumSeq([j \in 1..n |-> Sign(1 + j) * A[1][j] * Det(Minor(A, n, 1, j), n - 1)])

\* The adjugate: tf.linalg.inv(A) is Adj(A) / Det(A).
Adj_Unsigned(A, n) ==
    [i \in 1..n |-> [j \in 1..n |-> Det(Minor(A, n, j, i), n - 1)]]
Adj(A, n) ==
    [i \in 1..n |-> [j \in 1..n |-> Sign(i + j) * Det(Minor(A, n, j, i), n - 1)]]

(***************************************************************************)
(* Sorting by category (np.argsort) and its inverse.                       *)
(***************************************************************************)
\* np.argsort leaves the order of equal labels to the sorting routine:
\* tie says whether equal labels keep or reverse their order.
TieBreaks == {"stable", "reversed"}

\* The place (1-based) row i takes in the sorted order.
Position(cats, i, tie) ==
    1 + Cardinality({k \in DOMAIN cats : cats[k] < cats[i]})
      + Cardinality({k \in DOMAIN cats :
                        /\ cats[k] = cats[i]
                        /\ IF tie = "stable" THEN k < i ELSE k > i})

\* perm = np.argsort(cats)
ArgSort_Identity(cats, tie) == [pos \in DOMAIN cats |-> pos]
ArgSort(cats, tie) ==
    [pos \in DOMAIN cats |-> CHOOSE i \in DOMAIN cats : Position(cats, i, tie) = pos]

\* revperm = np.argsort(perm)
RevPerm_Identity(perm) == [i \in DOMAIN perm |-> i]
RevPerm(perm) == [i \in DOMAIN perm |-> CHOOSE k \in DOMAIN perm : perm[k] = i]

\* x[perm]
Take(x, perm) == [k \in DOMAIN perm |-> x[perm[k]]]

\* Optional values: None is the empty sequence, a given value x is <<x>>.
Nothing == <<>>
Some(x) == <<x>>
IsNone(o) == o = <<>>
Get(o) == o[1]

(***************************************************************************)
(* Model.predict (model.py).                                               *)
(***************************************************************************)
\* interpolate_batch: one query batch against the training set.  J and D are
\* the adjugate and determinant of the (scaled) training covariance, d1 the
\* scaled vals1 - m1.
InterpolateBatch_NoRestore(g, J, D, locs1, d1, cats1, locs2in, cats2in, p, tie) ==
    LET N1 == Len(locs1) IN
    Only({
      Only({
        Only({
          [mean |-> [b \in DOMAIN locs2in |->
                       Frac(Take(mc.M, revperm)[b] * D
                              + SumSeq([a \in 1..N1 |-> A12[a][b] * w[a]]),
                            p.den * D)],
           var  |-> [b \in DOMAIN locs2in |->
                       Frac(mc.C[revperm[b]][revperm[b]] * D
                              - SumSeq([a \in 1..N1 |-> A12[a][b] *
                                   SumSeq([c \in 1..N1 |-> J[a][c] * A12[c][b]])]),
                            p.den * D)],
           cats2 |-> Take(cats2in, perm)] :
          A12 \in {[a \in 1..N1 |-> Take(A12s[a], revperm)]},
          w   \in {[a \in 1..N1 |-> SumSeq([c \in 1..N1 |-> J[a][c] * d1[c]])]}}) :
        A12s \in {GpCovariance2(g, locs1, cats1, Take(locs2in, perm),
                                Take(cats2in, perm), N1, p).C},
        mc   \in {GpCovariance(g, Take(locs2in, perm), Take(cats2in, perm), p)},
        revperm \in {[i \in DOMAIN perm |-> i]}}) :
      perm \in {ArgSort(cats2in, tie)}})
InterpolateBatch(g, J, D, locs1, d1, cats1, locs2in, cats2in, p, tie) ==
    LET N1 == Len(locs1) IN
    Only({
      Only({
        Only({
          [mean |-> [b \in DOMAIN locs2in |->
                       Frac(Take(mc.M, revperm)[b] * D
                              + SumSeq([a \in 1..N1 |-> A12[a][b] * w[a]]),
                            p.den * D)],
           var  |-> [b \in DOMAIN locs2in |->
                       Frac(mc.C[revperm[b]][revperm[b]] * D
                              - SumSeq([a \in 1..N1 |-> A12[a][b] *
                                   SumSeq([c \in 1..N1 |-> J[a][c] * A12[c][b]])]),
                            p.den * D)],
           cats2 |-> Take(cats2in, perm)] :
          A12 \in {[a \in 1..N1 |-> Take(A12s[a], revperm)]},
          w   \in {[a \in 1..N1 |-> SumSeq([c \in 1..N1 |-> J[a][c] * d1[c]])]}}) :
        A12s \in {GpCovariance2(g, locs1, cats1, Take(locs2in, perm),
                                Take(cats2in, perm), N1, p).C},
        mc   \in {GpCovariance(g, Take(locs2in, perm), Take(cats2in, perm), p)},
        revperm \in {RevPerm(perm)}}) :
      perm \in {ArgSort(cats2in, tie)}})

\* interpolate_pair_batch: one batch of query pairs against the training
\* set.  locs2in[b] is the pair <<first, second>>; the mean of a pair has two
\* entries and its variance is 2 by 2.
InterpolatePairBatch(g, J, D, locs1, d1, cats1, locs2in, cats2in, p, tie) ==
    LET N1 == Len(locs1)
        N2 == Len(locs2in)
    IN
    Only({
      Only({
        Only({
          [mean |-> [b \in DOMAIN locs2in |-> [c \in 1..2 |->
                       Frac(m2[b][c] * D
                              + SumSeq([a \in 1..N1 |-> A12[a][b][c] * w[a]]),
                            p.den * D)]],
           var  |-> [b \in DOMAIN locs2in |-> [c \in 1..2 |-> [d \in 1..2 |->
                       Frac(A22[b][c][d] * D
                              - SumSeq([a \in 1..N1 |-> A12[a][b][c] *
                                   SumSeq([e \in 1..N1 |-> J[a][e] * A12[e][b][d]])]),
                            p.den * D)]]],
           cats2 |-> cats2] :
          m2  \in {Take([b \in 1..N2 |-> <<A22s.M[b], A33s.M[b]>>], revperm)},
          A12 \in {[a \in 1..N1 |->
                     Take([b \in 1..N2 |-> <<A12s[a][b], A13s[a][b]>>], revperm)]},
          A22 \in {Take([b \in 1..N2 |->
                           <<<<A22s.C[b][b], A23s[b][b]>>,
                             <<A23s[b][b], A33s.C[b][b]>>>>], revperm)},
          w   \in {[a \in 1..N1 |-> SumSeq([c \in 1..N1 |-> J[a][c] * d1[c]])]}}) :
        A12s \in {GpCovariance2(g, locs1, cats1, first, cats2, N1, p).C},
        A13s \in {GpCovariance2(g, locs1, cats1, second, cats2, N1, p).C},
        A22s \in {GpCovariance(g, first, cats2, p)},
        A33s \in {GpCovariance(g, second, cats2, p)},
        A23s \in {GpCovariance2(g, first, cats2, second, cats2, N2, p).C},
        revperm \in {RevPerm(perm)}}) :
      perm   \in {ArgSort(cats2in, tie)},
      first  \in {[b \in 1..N2 |-> Take(locs2in, ArgSort(cats2in, tie))[b][1]]},
      second \in {[b \in 1..N2 |-> Take(locs2in, ArgSort(cats2in, tie))[b][2]]},
      cats2  \in {Take(cats2in, ArgSort(cats2in, tie))}})

\* cats1 as interpolate hands it to gp_covariance: the sorted labels, or
\* np.zeros_like(locs1[..., 0]) when the Model has none.
InterpolateCats1(cats1in, N1, tie) ==
    IF IsNone(cats1in) THEN [i \in 1..N1 |-> 0]
    ELSE Take(Get(cats1in), ArgSort(Get(cats1in), tie))

Failed(e, asm, inv) == [err |-> e, m |-> <<>>, v |-> <<>>, asm |-> asm, inv |-> inv]

\* for_gp: the slices locs2[start:stop] for start in
\* np.arange(0, len(locs2), batch_size), batch_size = self.locs.shape[0] // 2
\* being at least 1 here.
QueryBatches(selfN, N2) ==
    [k \in 1..((N2 + (selfN \div 2) - 1) \div (selfN \div 2)) |->
        [start |-> (k - 1) * (selfN \div 2),
         stop  |-> Min({k * (selfN \div 2), N2})]]

\* How often one interpolate runs tf.linalg.inv(A11) for nb query batches:
\* once, ahead of the loop over the batches.
Inversions_PerBatch(nb) == nb
Inversions(nb) == 1

\* interpolate: batches of self.locs.shape[0] // 2 query rows, one inverse
\* of the training covariance, one call of f (interpolate_batch, or
\* interpolate_pair_batch when pair is set) per batch.
InterpolateWith(F(_, _, _, _, _, _, _, _, _, _),
                g, selfN, locs1in, vals1in, cats1in, locs2, cats2in, p, tie) ==
    LET batch_size == selfN \div 2
        N2      == Len(locs2)
        N1      == Len(locs1in)
        cats2   == IF IsNone(cats2in) THEN [i \in 1..N2 |-> 0] ELSE Get(cats2in)
        nb      == Len(QueryBatches(selfN, N2))
        start(k) == QueryBatches(selfN, N2)[k].start
        stop(k)  == QueryBatches(selfN, N2)[k].stop
        batchOf(b) == ((b - 1) \div batch_size) + 1
        inBatch(b) == ((b - 1) % batch_size) + 1
    IN  IF batch_size = 0 THEN Failed("arange: zero step", 0, 0)
        ELSE
    Only({
      Only({
        Only({
          IF D = 0 THEN Failed("matrix not invertible", 1, 0)
          ELSE Only({
            [err |-> None,
             m   |-> [b \in 1..N2 |-> res[batchOf(b)].mean[inBatch(b)]],
             v   |-> [b \in 1..N2 |-> res[batchOf(b)].var[inBatch(b)]],
             asm |-> 1 + 2 * nb,
             inv |-> Inversions(nb),
             batches |-> QueryBatches(selfN, N2),
             passed |-> <<cats1>> \o [k \in 1..nb |-> res[k].cats2]] :
            res \in {[k \in 1..nb |->
                       F(g, Adj(m1A11.C, N1), D, locs1,
                          [c \in 1..N1 |-> p.den * vals1[c] - m1A11.M[c]], cats1,
                          SubSeq(locs2, start(k) + 1, stop(k)),
                          SubSeq(cats2, start(k) + 1, stop(k)), p, tie)]}}) :
          D \in {Det(m1A11.C, N1)}}) :
        m1A11 \in {GpCovariance(g, locs1, cats1, p)}}) :
      perm \in {IF IsNone(cats1in) THEN [i \in 1..N1 |-> i]
                ELSE ArgSort(Get(cats1in), tie)},
      locs1 \in {Take(locs1in, IF IsNone(cats1in) THEN [i \in 1..N1 |-> i]
                               ELSE ArgSort(Get(cats1in), tie))},
      vals1 \in {Take(vals1in, IF IsNone(cats1in) THEN [i \in 1..N1 |-> i]
                               ELSE ArgSort(Get(cats1in), tie))},
      cats1 \in {InterpolateCats1(cats1in, N1, tie)}})

\* interpolate(..., pair=False)
Interpolate(g, selfN, locs1in, vals1in, cats1in, locs2, cats2in, p, tie) ==
    InterpolateWith(InterpolateBatch,
                    g, selfN, locs1in, vals1in, cats1in, locs2, cats2in, p, tie)

\* interpolate(..., pair=True): every query row is a pair of locations.
InterpolatePairs(g, selfN, locs1in, vals1in, cats1in, locs2, cats2in, p, tie) ==
    InterpolateWith(InterpolatePairBatch,
                    g, selfN, locs1in, vals1in, cats1in, locs2, cats2in, p, tie)

\* The k-th smallest draw (np.quantile sorts).
KthSmallest(x, k) ==
    CHOOSE v \in Range(x) :
        /\ Cardinality({i \in DOMAIN x : x[i] < v}) < k
        /\ k <= Cardinality({i \in DOMAIN x : x[i] <= v})

\* reduce == 'mean': x.mean(axis=0) of every parameter.
ReduceMean(parameters, samples) ==
    [num |-> [name \in DOMAIN parameters |-> SumSeq(parameters[name])], den |-> samples]

\* reduce == 'median': np.quantile(x, 0.5, axis=0), the middle draw or the
\* average of the two middle draws.
ReduceMedian(parameters, samples) ==
    [num |-> [name \in DOMAIN parameters |->
                 KthSmallest(parameters[name], (samples + 1) \div 2)
               + KthSmallest(parameters[name], (samples + 2) \div 2)],
     den |-> 2]

\* pick: a = arange(samples) * subsample / samples % 1, and draw i is kept
\* when i = 0 or a[i] >= a[i-1].  The kept draws, as 1-based indices.
Picked(samples, subsample) ==
    LET a(i)  == (i * subsample) % samples
        keep  == {i \in 0..(samples - 1) : i = 0 \/ a(i) >= a(i - 1)}
    IN  [k \in 1..Cardinality(keep) |->
            1 + CHOOSE i \in keep : Cardinality({h \in keep : h < i}) = k - 1]

\* The training set interpolate is given: self.locs, self.vals, self.cats.
TrainingSet_FromData(m) ==
    IF IsNone(m.data) THEN [locs |-> Get(m.locs), vals |-> Get(m.vals), cats |-> m.cats]
    ELSE Get(m.data)
TrainingSet(m) == [locs |-> Get(m.locs), vals |-> Get(m.vals), cats |-> m.cats]

\* m = mm.mean(axis=0): the mean over the draws, row by row.
MixtureMean(results, N2) ==
    [b \in 1..N2 |->
        RMul(RSum([i \in DOMAIN results |-> results[i].m[b]]), <<1, Len(results)>>)]

\* v = (np.square(mm) + vv).mean(axis=0) - np.square(m)
MixtureVar_NoSquare(results, N2) ==
    [b \in 1..N2 |->
        RMul(RSum([i \in DOMAIN results |->
                     RAdd(RMul(results[i].m[b], results[i].m[b]), results[i].v[b])]),
             <<1, Len(results)>>)]
MixtureVar(results, N2) ==
    Only({[b \in 1..N2 |->
             RSub(RMul(RSum([i \in DOMAIN results |->
                               RAdd(RMul(results[i].m[b], results[i].m[b]),
                                    results[i].v[b])]),
                       <<1, Len(results)>>),
                  RMul(m[b], m[b]))] :
            m \in {MixtureMean(results, N2)}})

\* The draw-by-draw branch of predict: one interpolate per i in
\* range(subsample) on the i-th kept draw, then the mixture of the results.
PredictDraws(m, g, locs2, cats2, subsample, tie) ==
    LET samples == Get(m.parameter_sample_size)
        picked  == Picked(samples, subsample)
        N       == Len(Get(m.locs))
        t       == TrainingSet(m)
        one(i)  == IF i > Len(picked) THEN Failed("IndexError", 0, 0)
                   ELSE Interpolate(g, N, t.locs, t.vals, t.cats, locs2, cats2,
                           Scalars([name \in DOMAIN m.parameters |->
                                       m.parameters[name][picked[i]]]), tie)
    IN  Only({
          LET bad     == {i \in 1..subsample : results[i].err # None}
              first   == Min(bad)
              upto(n) == [asm |-> SumSeq([i \in 1..n |-> results[i].asm]),
                          inv |-> SumSeq([i \in 1..n |-> results[i].inv])]
              draws   == [i \in 1..Min({subsample, Len(picked)}) |-> picked[i]]
          IN  IF bad # {}
              THEN [err |-> results[first].err, m |-> <<>>, v |-> <<>>,
                    asm |-> upto(first).asm, inv |-> upto(first).inv,
                    draws |-> draws, per |-> <<>>]
              ELSE [err |-> None,
                    m   |-> MixtureMean(results, Len(locs2)),
                    v   |-> MixtureVar(results, Len(locs2)),
                    asm |-> upto(subsample).asm,
                    inv |-> upto(subsample).inv,
                    draws |-> draws,
                    per |-> [i \in 1..subsample |-> [m |-> results[i].m, v |-> results[i].v]],
                    batches |-> results[1].batches,
                    passed |-> results[1].passed] :
          results \in {[i \in 1..subsample |-> one(i)]}})

\* The checks at the head of predict: the error raised, or None.
PredictCheck_NoDimension(m, locs2, cats2, subsample, reduce) ==
    IF ~IsNone(subsample) /\ IsNone(m.parameter_sample_size)
    THEN "AssertionError: subsample is only valid with sampled parameters"
    ELSE IF ~IsNone(reduce) /\ IsNone(m.parameter_sample_size)
    THEN "AssertionError: reduce is only valid with sampled parameters"
    ELSE IF ~IsNone(subsample) /\ ~IsNone(reduce)
    THEN "AssertionError: subsample and reduce cannot both be given"
    ELSE IF IsNone(m.locs)
    THEN "AttributeError: NoneType has no attribute shape"
    ELSE IF ~IsNone(cats2) /\ Len(Get(cats2)) # Len(locs2)
    THEN "AssertionError: Mismatched shapes in cats and locs"
    ELSE None
PredictCheck(m, locs2, cats2, subsample, reduce) ==
    IF ~IsNone(subsample) /\ IsNone(m.parameter_sample_size)
    THEN "AssertionError: subsample is only valid with sampled parameters"
    ELSE IF ~IsNone(reduce) /\ IsNone(m.parameter_sample_size)
    THEN "AssertionError: reduce is only valid with sampled parameters"
    ELSE IF ~IsNone(subsample) /\ ~IsNone(reduce)
    THEN "AssertionError: subsample and reduce cannot both be given"
    ELSE IF IsNone(m.locs)
    THEN "AttributeError: NoneType has no attribute shape"
    ELSE IF Len(Get(m.locs)[1]) # Len(locs2[1])
    THEN "AssertionError: Mismatch in location dimentions"
    ELSE IF ~IsNone(cats2) /\ Len(Get(cats2)) # Len(locs2)
    THEN "AssertionError: Mismatched shapes in cats and locs"
    ELSE None

\* Model.predict(locs2, cats2, subsample=, reduce=), pair=False.  subsample
\* and reduce are optional; a given subsample is at least 1.
Predict(m, g, locs2, cats2, subsample, reduce, tie) ==
    LET sampled == ~IsNone(m.parameter_sample_size)
        N       == Len(Get(m.locs))
        t       == TrainingSet(m)
        run(p)  == Interpolate(g, N, t.locs, t.vals, t.cats, locs2, cats2, p, tie)
        check   == PredictCheck(m, locs2, cats2, subsample, reduce)
    IN  IF check # None
        THEN Failed(check, 0, 0)
        ELSE IF IsNone(m.vals)
        THEN \* vals1[perm] when cats is given, else vals1 - m1 after the inverse
             (IF IsNone(m.cats) THEN Failed("TypeError: vals is None", 1, 1)
                                ELSE Failed("TypeError: vals is None", 0, 0))
        ELSE IF ~sampled
        THEN run(Scalars([name \in DOMAIN m.parameters |-> m.parameters[name][1]]))
        ELSE IF reduce = Some("median")
        THEN run(ReduceMedian(m.parameters, Get(m.parameter_sample_size)))
        ELSE IF reduce = Some("mean")
        THEN run(ReduceMean(m.parameters, Get(m.parameter_sample_size)))
        ELSE IF ~IsNone(subsample) /\ Get(subsample) > Get(m.parameter_sample_size)
        THEN Failed("AssertionError: subsample may not exceed sample size", 0, 0)
        ELSE PredictDraws(m, g, locs2, cats2,
                          IF IsNone(subsample) THEN Get(m.parameter_sample_size)
                          ELSE Get(subsample), tie)

\* Model.predict(locs2, cats2, pair=True) on a Model with one parameter
\* set: locs2[b] is a pair of locations.
PredictPairs(m, g, locs2, cats2, tie) ==
    LET check == PredictCheck(m, [b \in DOMAIN locs2 |-> locs2[b][1]], cats2,
                              Nothing, Nothing)
        t     == TrainingSet(m)
    IN  IF check # None
        THEN Failed(check, 0, 0)
        ELSE IF IsNone(m.vals)
        THEN (IF IsNone(m.cats) THEN Failed("TypeError: vals is None", 1, 1)
                                ELSE Failed("TypeError: vals is None", 0, 0))
        ELSE InterpolatePairs(g, Len(Get(m.locs)), t.locs, t.vals, t.cats,
                 locs2, cats2,
                 Scalars([name \in DOMAIN m.parameters |-> m.parameters[name][1]]),
                 tie)

(***************************************************************************)
(* Covariance assembly on its own (SpecKernel).                            *)
(***************************************************************************)
KernelShapes == {"mux", "muxstack", "stackmux"}

\* GPs over the integer-valued kernels; node 1 is the mean, node 2 the root.
MakeKernelGP(shape) ==
    CASE shape = "mux" ->
           [mean |-> 1, kernel |-> 2,
            nodes |-> <<NoVars("ZeroTrend"), Mux(<<3, 4>>),
                        Noise("nugget"), Wiener(1, 0 - 1)>>]
      [] shape = "muxstack" ->
           [mean |-> 1, kernel |-> 2,
            nodes |-> <<NoVars("ZeroTrend"), Mux(<<3, 4>>),
                        Stack(<<5, 6>>), Stack(<<7, 6>>),
                        Delta("dsill"), Noise("nugget"), Wiener(1, 0 - 1)>>]
      [] shape = "stackmux" ->
           [mean |-> 1, kernel |-> 2,
            nodes |-> <<NoVars("ZeroTrend"), Stack(<<3, 4>>),
                        Mux(<<5, 6>>), Noise("nugget"),
                        Delta("dsill"), Wiener(1, 0 - 1)>>]

\* Location batches: up to MaxRows points on a line, with one label each.
Points == {<<x>> : x \in 0..MaxCoord}
Batches(n) == UNION {[1..k -> Points] : k \in 0..n}
Labels(n, N) == [1..n -> 0..(N - 1)]

KernelParams == {[nugget |-> 2, dsill |-> d] : d \in {3}}

InitKernel ==
    /\ phase = "new"
    /\ \E shape \in KernelShapes : gp = MakeKernelGP(shape)
    /\ values \in KernelParams
    /\ built = None
    /\ \E locs1 \in Batches(MaxRows), locs2 \in Batches(MaxRows) :
       \E cats1 \in Labels(Len(locs1), 2), cats2 \in Labels(Len(locs2), 2) :
       \E offset \in {0, Len(locs1)} :
          cache = [locs1 |-> locs1, cats1 |-> cats1,
                   locs2 |-> locs2, cats2 |-> cats2, offset |-> offset]
    /\ cov = None
    /\ tiebreak = "stable" /\ models = <<>> /\ ret = None /\ calls = 0 /\ seen = <<>>

\* gp_covariance2(gp, locs1, cats1, locs2, cats2, offset, p)
Assemble ==
    /\ phase = "new"
    /\ cov' = GpCovariance2(gp, cache.locs1, cache.cats1, cache.locs2, cache.cats2,
                            cache.offset, Scalars(values))
    /\ phase' = "assembled"
    /\ UNCHANGED <<gp, values, built, cache, tiebreak, models, ret, calls, seen>>

NextKernel == Assemble

SpecKernel == InitKernel /\ [][NextKernel]_vars

IsSorted(cats) == \A i \in DOMAIN cats, j \in DOMAIN cats : i < j => cats[i] <= cats[j]

\* The rows of a batch that carry label c, in batch order.
RECURSIVE RowsOf(_, _, _)
RowsOf(locs, cats, c) ==
    IF locs = <<>> THEN <<>>
    ELSE (IF cats[1] = c THEN <<locs[1]>> ELSE <<>>) \o RowsOf(Tail(locs), Tail(cats), c)

\* How many rows carry a label below c, and the rank of row i among the
\* rows of its own label.
RowsBelow(cats, c) == Cardinality({k \in DOMAIN cats : cats[k] < c})
RankIn(cats, i) == Cardinality({k \in DOMAIN cats : k <= i /\ cats[k] = cats[i]})

\* What input c of the root Mux gives on the sub-batches of label c.
OwnBlock(c) ==
    KernelRun(gp.nodes, gp.nodes[gp.kernel].kids[c + 1],
              [locs1 |-> RowsOf(cache.locs1, cache.cats1, c),
               locs2 |-> RowsOf(cache.locs2, cache.cats2, c),
               offset |-> cache.offset + RowsBelow(cache.cats2, c) - RowsBelow(cache.cats1, c)],
              Scalars(values))

\* C10: for category-sorted batches the covariance of a Mux is zero wherever
\* the two labels differ, and for a same-label pair it is the entry that
\* label's own sub-kernel gives on that label's sub-batches.
C10_MuxBlockIndependence ==
    (/\ phase = "assembled" /\ gp.nodes[gp.kernel].kind = "Mux"
     /\ IsSorted(cache.cats1) /\ IsSorted(cache.cats2))
        => \A i \in DOMAIN cache.locs1, j \in DOMAIN cache.locs2 :
              cov.C[i][j] =
                 IF cache.cats1[i] # cache.cats2[j] THEN 0
                 ELSE OwnBlock(cache.cats1[i])[RankIn(cache.cats1, i)][RankIn(cache.cats2, j)]

\* C10 witness: a sorted two-label assembly under a Mux whose sub-kernels are
\* non-zero on every pair, with both labels on both sides.
C10_Witness ==
    /\ phase = "assembled" /\ gp.nodes[gp.kernel].kind = "Mux"
    /\ gp.nodes[3].kind = "Stack"
    /\ IsSorted(cache.cats1) /\ IsSorted(cache.cats2)
    /\ Range(cache.cats1) = {0, 1} /\ Range(cache.cats2) = {0, 1}
    /\ Len(cache.cats1) = 3 /\ Len(cache.cats2) = 3
    /\ \E i \in DOMAIN cache.locs1, j \in DOMAIN cache.locs2 :
          cache.cats1[i] = cache.cats2[j] /\ cov.C[i][j] > 2

(***************************************************************************)
(* The Model operations fit, mcmc, generate and predict (SpecModel).       *)
(***************************************************************************)
\* The GP of the Models: Wiener(axis 0, start -1) + Noise('nugget').
ModelGP ==
    [mean |-> 1, kernel |-> 2,
     nodes |-> <<NoVars("ZeroTrend"), Stack(<<3, 4>>),
                 Wiener(1, 0 - 1), Noise("nugget")>>]

\* A Model object: the dataclass fields parameters, parameter_sample_size,
\* locs, vals, cats and verbose, and the attribute data that fit and mcmc
\* set (not a field, so dataclasses.replace does not copy it).
NewModel(parameters, pss, locs, vals, cats, verbose) ==
    [parameters |-> parameters, parameter_sample_size |-> pss,
     locs |-> locs, vals |-> vals, cats |-> cats, data |-> Nothing,
     verbose |-> verbose]

\* The batch given to fit, mcmc or generate: n distinct points in a row,
\* the observed value of row i is i; the labels are arbitrary.
TrainLocs(n) == [i \in 1..n |-> <<i - 1>>]
TrainVals(n) == [i \in 1..n |-> i]
CatChoices(n) == {Nothing} \cup {Some(c) : c \in Labels(n, 2)}

NoCall == [op |-> "none", self |-> 0, args |-> <<>>, err |-> None, new |-> 0,
           asm |-> 0, inv |-> 0, bursts |-> 0, steps |-> 0, reports |-> <<>>,
           perm |-> <<>>, sample |-> <<>>, m |-> <<>>, v |-> <<>>,
           draws |-> <<>>, per |-> <<>>, log |-> <<>>, acc |-> <<>>,
           chain |-> <<>>, surf |-> <<>>, cur |-> <<>>,
           labels |-> <<>>, batches |-> <<>>, passed |-> <<>>]

\* Model(gp, parameters, parameter_sample_size, locs, vals, cats, verbose):
\* scalar parameters, or MaxDraws draws of them; no data, half of the data,
\* or a batch with or without labels.
InitialModels ==
    LET N == MaxTrain IN
    {NewModel([nugget |-> draws], pss, d[1], d[2], d[3], verbose) :
        draws \in {<<1>>}, pss \in {Nothing},
        d \in {<<Nothing, Nothing, Nothing>>,
               <<Some(TrainLocs(N)), Nothing, Nothing>>,
               <<Nothing, Some(TrainVals(N)), Nothing>>,
               <<Some(TrainLocs(N)), Some(TrainVals(N)), Nothing>>,
               <<Some(TrainLocs(N)), Some(TrainVals(N)), Some([i \in 1..N |-> i % 2])>>},
        verbose \in BOOLEAN}
    \cup
    {NewModel([nugget |-> [i \in 1..MaxDraws |-> 1 + (i % MaxValue)]], Some(MaxDraws),
              d[1], d[2], d[3], verbose) :
        d \in {<<Nothing, Nothing, Nothing>>,
               <<Some(TrainLocs(N)), Some(TrainVals(N)), Some([i \in 1..N |-> i % 2])>>},
        verbose \in BOOLEAN}

InitModel ==
    /\ phase = "model"
    /\ gp = ModelGP
    /\ values = [nugget |-> <<1>>]
    /\ built \in PostInitOutcomes(gp, values)
    /\ cache = None /\ cov = None
    /\ tiebreak \in TieBreaks
    /\ \E m \in InitialModels : models = <<m>>
    /\ ret = NoCall
    /\ calls = 0
    /\ seen = Nothing

\* The permutation fit, mcmc and generate sort by: np.argsort(cats) when
\* cats is given, else none (the identity).
SortPerm(cats, n, tie) ==
    IF IsNone(cats) THEN [i \in 1..n |-> i] ELSE ArgSort(Get(cats), tie)

\* The restore step: x[revperm] when cats is given.
Restore(x, cats, perm) == IF IsNone(cats) THEN x ELSE Take(x, RevPerm(perm))

\* The data dict fit and mcmc store in self.data: the sorted batch.
DataDict(locs, vals, cats, perm) ==
    [locs |-> Take(locs, perm), vals |-> Take(vals, perm),
     cats |-> IF IsNone(cats) THEN Nothing ELSE Some(Take(Get(cats), perm))]

\* j after burst i of fit (i = 0..9): the loop runs while j < (i+1)*iters/10.
RECURSIVE StepsAfter(_, _)
StepsAfter(i, iters) ==
    LET before == IF i = 0 THEN 0 ELSE StepsAfter(i - 1, iters)
        need   == ((i + 1) * iters + 9) \div 10
    IN  IF before < need THEN need ELSE before

\* Parameter dictionaries get_surface can return for the shape of old:
\* every value inside (0, inf).
SurfaceDicts(old) ==
    {d \in [DOMAIN old -> UNION {[1..n -> 1..MaxValue] : n \in 1..MaxDraws}] :
        \A name \in DOMAIN old : Len(d[name]) = Len(old[name])}

\* dataclasses.replace(self, ...): a new Model through __init__ and
\* __post_init__, which checks the parameters again.
Replaced_DropsSampleSize(m, parameters, pss, locs, vals, cats) ==
    [m EXCEPT !.parameters = parameters, !.parameter_sample_size = Nothing,
              !.locs = Some(locs), !.vals = Some(vals), !.cats = cats,
              !.data = Nothing]
Replaced(m, parameters, pss, locs, vals, cats) ==
    [m EXCEPT !.parameters = parameters, !.parameter_sample_size = pss,
              !.locs = Some(locs), !.vals = Some(vals), !.cats = cats,
              !.data = Nothing]

ReplaceOk(parameters) == \E o \in PostInitOutcomes(gp, parameters) : o.ok

\* gp_train_step, step k of a fit whose parameters are path[k] after k steps
\* (start before any step): it returns sp, the surface parameters read
\* before apply_gradients moves the underlying ones.
TrainStepSp(start, path, k) == IF k = 1 THEN start ELSE path[k - 1]

\* The surface of up after j steps.
SurfaceAfter(start, path, j) == IF j = 0 THEN start ELSE path[j]

\* model.fit(locs, vals, cats, iters=iters).  path[k] is the surface of the
\* parameters after gradient step k; works tells whether the draws of a
\* sampled receiver broadcast against the batch.
Fit(self, locs, vals, cats, iters, path, works) ==
    LET m      == models[self]
        perm   == SortPerm(cats, Len(locs), tiebreak)
        data   == DataDict(locs, vals, cats, perm)
        marked == [models EXCEPT ![self].data = Some(data)]
        steps  == StepsAfter(9, iters)
        new    == SurfaceAfter(m.parameters, path, steps)
        call   == [NoCall EXCEPT !.op = "fit", !.self = self, !.perm = perm,
                      !.args = [locs |-> locs, vals |-> vals, cats |-> cats, iters |-> iters]]
    IN  IF ~works
        THEN /\ ~IsNone(m.parameter_sample_size) /\ steps > 0
             /\ \A k \in DOMAIN path : path[k] = m.parameters
             /\ ~(m.verbose /\ StepsAfter(0, iters) = 0)
             /\ models' = marked
             /\ ret' = [call EXCEPT !.err = "InvalidArgumentError", !.asm = 1,
                                    !.labels = <<data.cats>>]
        ELSE IF m.verbose /\ StepsAfter(0, iters) = 0
        THEN \* the first report reads ll before any step assigned it
             /\ models' = marked
             /\ ret' = [call EXCEPT !.err = "NameError"]
        ELSE /\ ReplaceOk(new)
             /\ Len(models) < MaxModels
             /\ models' = Append(marked,
                    Replaced(m, new, m.parameter_sample_size,
                             Restore(data.locs, cats, perm),
                             Restore(data.vals, cats, perm),
                             IF IsNone(cats) THEN Nothing
                             ELSE Some(Restore(Get(data.cats), cats, perm))))
             /\ ret' = [call EXCEPT !.new = Len(models) + 1, !.steps = steps,
                           !.asm = steps,
                           !.labels = IF steps > 0 THEN <<data.cats>> ELSE <<>>,
                           !.reports = IF m.verbose
                                       THEN [i \in 1..10 |-> StepsAfter(i - 1, iters)]
                                       ELSE <<>>,
                           !.surf = IF m.verbose
                                    THEN [i \in 1..10 |->
                                            TrainStepSp(m.parameters, path,
                                                        StepsAfter(i - 1, iters))]
                                    ELSE <<>>,
                           !.cur = [i \in 1..10 |->
                                      SurfaceAfter(m.parameters, path,
                                                   StepsAfter(i - 1, iters))]]

\* The two checks at the head of mcmc: the error raised, or None.
McmcCheck_SamplesOnly(samples, burnin, report_interval) ==
    IF samples % report_interval # 0
    THEN "AssertionError: samples must be a multiple of report_interval"
    ELSE None
McmcCheck(samples, burnin, report_interval) ==
    IF samples % report_interval # 0
    THEN "AssertionError: samples must be a multiple of report_interval"
    ELSE IF burnin % report_interval # 0
    THEN "AssertionError: burnin must be a multiple of report_interval"
    ELSE None

\* The bursts of mcmc in the order they run: burst i (from 0) is a burn-in
\* burst when i < burnin_bursts, and run_chain draws report_interval states
\* in it, numbered here by their place in the chain.
McmcBursts(samples, burnin, report_interval) ==
    [b \in 1..((samples + burnin) \div report_interval) |->
        [is_burnin |-> (b - 1) < burnin \div report_interval,
         states    |-> [k \in 1..report_interval |-> (b - 1) * report_interval + k]]]

\* all_states after the last burst: acc_states, to which every burst that
\* is not a burn-in burst appended its states, concatenated.
RECURSIVE AccStates(_)
AccStates(bursts) ==
    IF bursts = <<>> THEN <<>>
    ELSE LET n == Len(bursts)
             before == AccStates(SubSeq(bursts, 1, n - 1))
         IN  IF bursts[n].is_burnin THEN before ELSE before \o bursts[n].states

\* posterior = get_surface(up): one row per accumulated state.
Posterior(chain, acc, names) ==
    [name \in names |-> [k \in 1..Len(acc) |-> chain[acc[k]][name]]]

\* The chains run_chain can produce over the whole call: a surface value of
\* every parameter for each state drawn.
Chains(old, samples, burnin, report_interval) ==
    [1..(((samples + burnin) \div report_interval) * report_interval)
        -> [DOMAIN old -> 1..MaxValue]]

\* model.mcmc(locs, vals, cats, samples=, burnin=, report_interval=), with
\* report_interval >= 1.  chain holds the states the sampler draws.  A run
\* of the chain on a receiver that already holds draws is not modelled.
Mcmc(self, locs, vals, cats, samples, burnin, report_interval, chain) ==
    LET m      == models[self]
        bursts == McmcBursts(samples, burnin, report_interval)
        acc    == AccStates(bursts)
        posterior == Posterior(chain, acc, DOMAIN m.parameters)
        perm   == SortPerm(cats, Len(locs), tiebreak)
        data   == DataDict(locs, vals, cats, perm)
        marked == [models EXCEPT ![self].data = Some(data)]
        num_bursts == (samples + burnin) \div report_interval
        call   == [NoCall EXCEPT !.op = "mcmc", !.self = self, !.perm = perm,
                      !.args = [locs |-> locs, vals |-> vals, cats |-> cats,
                                samples |-> samples, burnin |-> burnin,
                                report_interval |-> report_interval]]
        check  == McmcCheck(samples, burnin, report_interval)
    IN  IF check # None
        THEN /\ models' = models
             /\ ret' = [call EXCEPT !.perm = <<>>, !.err = check]
        ELSE IF samples = 0
        THEN \* no sampling burst ever assigned up
             /\ IsNone(m.parameter_sample_size)
             /\ models' = marked
             /\ ret' = [call EXCEPT !.err = "NameError", !.bursts = num_bursts,
                                    !.log = bursts, !.acc = acc,
                                    !.labels = IF num_bursts > 0 THEN <<data.cats>>
                                               ELSE <<>>]
        ELSE /\ IsNone(m.parameter_sample_size)
             /\ ReplaceOk(posterior)
             /\ Len(models) < MaxModels
             /\ models' = Append(marked,
                    Replaced(m, posterior, Some(samples),
                             Restore(data.locs, cats, perm),
                             Restore(data.vals, cats, perm),
                             IF IsNone(cats) THEN Nothing
                             ELSE Some(Restore(Get(data.cats), cats, perm))))
             /\ ret' = [call EXCEPT !.new = Len(models) + 1, !.bursts = num_bursts,
                                    !.log = bursts, !.acc = acc,
                                    !.chain = chain, !.labels = <<data.cats>>]

\* The two checks at the head of generate: the error raised, or None.
GenerateCheck_SampledOnly(m) ==
    IF ~IsNone(m.parameter_sample_size)
    THEN "AssertionError: Generation from a distribution not yet supported"
    ELSE None
GenerateCheck(m) ==
    IF ~(IsNone(m.locs) /\ IsNone(m.vals))
    THEN "AssertionError: Conditional generation not yet supported"
    ELSE IF ~IsNone(m.parameter_sample_size)
    THEN "AssertionError: Generation from a distribution not yet supported"
    ELSE None

\* model.generate(locs, cats).  sample is the draw of the multivariate
\* normal, one value per row of the sorted batch.
Generate(self, locs, cats, sample) ==
    LET m      == models[self]
        perm   == SortPerm(cats, Len(locs), tiebreak)
        sorted == Take(locs, perm)
        call   == [NoCall EXCEPT !.op = "generate", !.self = self,
                      !.args = [locs |-> locs, cats |-> cats]]
        check  == GenerateCheck(m)
    IN  IF check # None
        THEN /\ sample = [i \in DOMAIN locs |-> 0]
             /\ models' = models
             /\ ret' = [call EXCEPT !.err = check]
        ELSE /\ ReplaceOk(m.parameters)
             /\ Len(models) < MaxModels
             /\ models' = Append(models,
                    Replaced(m, m.parameters, m.parameter_sample_size,
                             Restore(sorted, cats, perm),
                             Restore(sample, cats, perm),
                             IF IsNone(cats) THEN Nothing
                             ELSE Some(Restore(Take(Get(cats), perm), cats, perm))))
             /\ ret' = [call EXCEPT !.perm = perm, !.sample = sample,
                           !.new = Len(models) + 1, !.asm = 1,
                           !.labels = <<IF IsNone(cats) THEN Nothing
                                        ELSE Some(Take(Get(cats), perm))>>]

Bump == /\ calls < MaxCalls
        /\ calls' = calls + 1
        /\ UNCHANGED <<phase, gp, values, built, cache, cov, tiebreak, seen>>

FitCall ==
    /\ Bump
    /\ \E self \in DOMAIN models, cats \in CatChoices(MaxTrain), iters \in 0..MaxIters :
       \E path \in [1..iters -> SurfaceDicts(models[self].parameters)], works \in BOOLEAN :
          Fit(self, TrainLocs(MaxTrain), TrainVals(MaxTrain), cats, iters, path, works)

McmcCall ==
    /\ Bump
    /\ \E self \in DOMAIN models, cats \in CatChoices(MaxTrain) :
       \E samples \in 0..MaxSamples, burnin \in 0..1, report_interval \in 1..2 :
       \E chain \in Chains(models[self].parameters, samples, burnin, report_interval) :
          Mcmc(self, TrainLocs(MaxTrain), TrainVals(MaxTrain), cats,
               samples, burnin, report_interval, chain)

GenerateCall ==
    /\ Bump
    /\ \E self \in DOMAIN models, cats \in CatChoices(MaxTrain) :
       \E sample \in [1..MaxTrain -> 0..1] :
          Generate(self, TrainLocs(MaxTrain), cats, sample)

\* The query batches of predict: three rows of the training dimension, or
\* one row with a coordinate too many; no labels, three labels or one label.
QueryLocs == {<<<<0>>, <<2>>, <<1>>>>, <<<<0, 0>>>>}
QueryCats == {Nothing, Some(<<1, 0, 1>>), Some(<<0>>)}

\* m, v = model.predict(locs2, cats2, subsample=, reduce=) as a call record.
PredictRet(self, locs2, cats2, subsample, reduce) ==
    Only({[NoCall EXCEPT !.op = "predict", !.self = self,
              !.args = [locs2 |-> locs2, cats2 |-> cats2,
                        subsample |-> subsample, reduce |-> reduce],
              !.err = r.err, !.m = r.m, !.v = r.v, !.asm = r.asm, !.inv = r.inv,
              !.draws = IF "draws" \in DOMAIN r THEN r.draws ELSE <<>>,
              !.per = IF "per" \in DOMAIN r THEN r.per ELSE <<>>,
              !.batches = IF "batches" \in DOMAIN r THEN r.batches ELSE <<>>,
              !.passed = IF "passed" \in DOMAIN r THEN r.passed ELSE <<>>,
              !.labels = IF r.asm = 0 THEN <<>>
                         ELSE <<Some(InterpolateCats1(models[self].cats,
                                         Len(Get(models[self].locs)), tiebreak))>>] :
            r \in {Predict(models[self], gp, locs2, cats2, subsample, reduce, tiebreak)}})

PredictCall ==
    /\ Bump
    /\ \E self \in DOMAIN models, locs2 \in QueryLocs, cats2 \in QueryCats :
       \E subsample \in {Nothing} \cup {Some(n) : n \in 1..MaxDraws},
          reduce \in {Nothing, Some("mean"), Some("median")} :
              ret' = PredictRet(self, locs2, cats2, subsample, reduce)
    /\ UNCHANGED models

NextModel == FitCall \/ McmcCall \/ GenerateCall \/ PredictCall

SpecModel == InitModel /\ [][NextModel]_vars

(***************************************************************************)
(* Properties of fit, mcmc, generate and predict.                          *)
(***************************************************************************)
HoldsData(m) == ~IsNone(m.locs) \/ ~IsNone(m.vals)
Sampled(m) == ~IsNone(m.parameter_sample_size)

\* C3: fit and mcmc never mutate the Model they are called on: after the
\* call every attribute of the receiver, the cached data batch included, has
\* the value it had before, and the updated parameters and the observed
\* data appear only on the newly returned Model.
C3_ReceiverUntouched ==
    [][ret'.op \in {"fit", "mcmc"} =>
          /\ models'[ret'.self] = models[ret'.self]
          /\ ret'.new # 0 =>
                /\ ret'.new \notin DOMAIN models
                /\ models'[ret'.new].locs = Some(ret'.args.locs)
                /\ models'[ret'.new].vals = Some(ret'.args.vals)]_vars

\* C4: fit, mcmc and generate sort the records by category internally, but
\* the Model they return holds locs, vals and cats in the caller's row
\* order: locs and cats (and for fit and mcmc vals) equal the inputs row for
\* row, and the value generate drew for a sorted row sits at the input row
\* that was sorted there.
C4_OriginalOrder ==
    (ret.op \in {"fit", "mcmc", "generate"} /\ ret.new # 0) =>
        LET new == models[ret.new]
            a   == ret.args
        IN  /\ IsNone(a.cats) \/ IsSorted(Take(Get(a.cats), ret.perm))
            /\ new.locs = Some(a.locs)
            /\ new.cats = a.cats
            /\ ret.op \in {"fit", "mcmc"} =>
                  /\ new.vals = Some(a.vals)
                  /\ Get(models[ret.self].data).locs = Take(a.locs, ret.perm)
                  /\ Get(models[ret.self].data).vals = Take(a.vals, ret.perm)
            /\ ret.op = "generate" =>
                  \A k \in DOMAIN ret.perm : Get(new.vals)[ret.perm[k]] = ret.sample[k]

C4_Witness ==
    /\ ret.op = "generate" /\ ret.new # 0
    /\ ~IsNone(ret.args.cats)
    /\ ret.perm # [i \in DOMAIN ret.perm |-> i]
    /\ ret.sample[1] # ret.sample[2]

\* C6: generate is rejected, before any covariance is assembled and without
\* changing the Model, whenever the Model holds observed data (locs or vals
\* set) or sampled parameters; it is accepted only on a Model with neither.
C6_GenerateRejected ==
    [][ret'.op = "generate" =>
          IF HoldsData(models[ret'.self]) \/ Sampled(models[ret'.self])
          THEN ret'.err # None /\ ret'.asm = 0 /\ ret'.new = 0 /\ models' = models
          ELSE ret'.err = None]_vars

C6_Witness ==
    /\ ret.op = "generate" /\ ret.err # None
    /\ ~IsNone(models[ret.self].locs) /\ IsNone(models[ret.self].vals)
    /\ ~Sampled(models[ret.self])

\* C7: predict rejects, before any covariance assembly or matrix inversion:
\* subsample and reduce both given; subsample given without sampled
\* parameters; reduce given without sampled parameters; query locations
\* whose last dimension differs from the training locations'; cats2 whose
\* length is not the number of query rows.
C7_PredictRejected ==
    ret.op = "predict" =>
        LET m == models[ret.self]
            a == ret.args
        IN  (\/ ~IsNone(a.subsample) /\ ~IsNone(a.reduce)
             \/ ~IsNone(a.subsample) /\ ~Sampled(m)
             \/ ~IsNone(a.reduce) /\ ~Sampled(m)
             \/ ~IsNone(m.locs) /\ Len(Get(m.locs)[1]) # Len(a.locs2[1])
             \/ ~IsNone(a.cats2) /\ Len(Get(a.cats2)) # Len(a.locs2))
            => (ret.err # None /\ ret.asm = 0 /\ ret.inv = 0)

C7_Witness ==
    /\ ret.op = "predict"
    /\ Sampled(models[ret.self]) /\ ~IsNone(models[ret.self].vals)
    /\ IsNone(ret.args.subsample)
    /\ Len(Get(models[ret.self].locs)[1]) # Len(ret.args.locs2[1])
    /\ ret.err # None

\* C8: mcmc rejects a call whose samples or burnin is not a multiple of
\* report_interval, before any sampling burst runs and before any state of
\* the receiver is touched.
C8_McmcRejected ==
    [][(/\ ret'.op = "mcmc"
        /\ \/ ret'.args.samples % ret'.args.report_interval # 0
           \/ ret'.args.burnin % ret'.args.report_interval # 0)
       => (ret'.err # None /\ ret'.bursts = 0 /\ ret'.new = 0 /\ models' = models)]_vars

C8_Witness ==
    /\ ret.op = "mcmc"
    /\ ret.args.samples > 0
    /\ ret.args.samples % ret.args.report_interval = 0
    /\ ret.args.burnin % ret.args.report_interval # 0
    /\ ret.err # None
    /\ IsNone(models[ret.self].data)

\* C14: for every samples >= 0 and burnin >= 0 that are multiples of
\* report_interval, mcmc runs (samples + burnin) / report_interval bursts,
\* the burn-in bursts before the sampling bursts, keeps no state of the
\* first burnin / report_interval bursts, and returns a Model holding
\* exactly samples draws of every parameter in the order the chain drew
\* them, with parameter_sample_size = samples.
C14_McmcBursts ==
    (/\ ret.op = "mcmc"
     /\ McmcCheck(ret.args.samples, ret.args.burnin, ret.args.report_interval) = None)
    =>  LET samples == ret.args.samples
            burnin  == ret.args.burnin
            every   == ret.args.report_interval
        IN  /\ ret.err = None
            /\ Len(ret.log) = (samples + burnin) \div every
            /\ \A b \in DOMAIN ret.log : ret.log[b].is_burnin <=> b <= burnin \div every
            /\ ret.acc = [k \in 1..samples |-> burnin + k]
            /\ ret.new \in DOMAIN models
            /\ models[ret.new].parameter_sample_size = Some(samples)
            /\ \A name \in DOMAIN models[ret.new].parameters :
                  models[ret.new].parameters[name]
                     = [k \in 1..samples |-> ret.chain[burnin + k][name]]

\* C15: for every iters >= 0, fit on a Model with scalar parameters runs 10
\* bursts, burst i (from 0) stepping until the step count reaches
\* (i+1)*iters/10; report is called once after each burst when verbose is
\* true and never when it is false, with a non-decreasing iteration count
\* that ends at iters; iters gradient steps are taken in all, and fit
\* returns the new parameters without error.
C15_FitBursts ==
    (ret.op = "fit" /\ ~Sampled(models[ret.self]))
    =>  LET iters == ret.args.iters
            verbose == models[ret.self].verbose
        IN  /\ ret.err = None
            /\ ret.new \in DOMAIN models
            /\ ret.steps = iters
            /\ Len(ret.cur) = 10
            /\ Len(ret.reports) = IF verbose THEN 10 ELSE 0
            /\ \A i \in DOMAIN ret.reports :
                  /\ 10 * ret.reports[i] >= i * iters
                  /\ 10 * (ret.reports[i] - 1) < i * iters
                  /\ i > 1 => ret.reports[i - 1] <= ret.reports[i]
            /\ verbose => ret.reports[10] = iters
            /\ models[ret.new].parameters = ret.cur[10]

\* C18: every report call of fit passes the current surface parameters:
\* the surface of the underlying parameters after the last gradient step of
\* the burst, which is what fit would return if it stopped at that burst.
C18_ReportsCurrent ==
    (ret.op = "fit" /\ ret.err = None)
    =>  \A i \in DOMAIN ret.surf : ret.surf[i] = ret.cur[i]

\* predict interpolates draw by draw: sampled parameters and no reduce.
MixtureMode == Sampled(models[ret.self]) /\ IsNone(ret.args.reduce)

\* C23 as stated: the training covariance is inverted exactly once per
\* predict call, in every mode of predict.
C23_Original ==
    (ret.op = "predict" /\ ret.err = None) => ret.inv = 1

\* C23 amended: the training covariance is inverted once for each parameter
\* set predict interpolates with, whatever the number of query batches:
\* once per call with a single parameter set or with reduce, and once per
\* draw used when the draws are interpolated one by one.
C23_OneInversePerParameterSet ==
    (ret.op = "predict" /\ ret.err = None) =>
        /\ ret.inv = IF MixtureMode THEN Len(ret.draws) ELSE 1
        /\ ret.asm = ret.inv * (1 + 2 * Len(ret.batches))

C23_Witness ==
    /\ ret.op = "predict" /\ ret.err = None
    /\ MixtureMode
    /\ Len(ret.draws) = 2 /\ Len(ret.batches) = 3
    /\ ret.inv = 2


\* C17: whenever fit, mcmc, generate or predict reaches covariance assembly
\* with no category list supplied, the labels the kernel and mean nodes see
\* are an all-zero array with one label per location.
C17_ImplicitCategory ==
    (/\ ret.op \in {"fit", "mcmc", "generate", "predict"}
     /\ IF ret.op = "predict" THEN IsNone(models[ret.self].cats)
                              ELSE IsNone(ret.args.cats))
    =>  LET N == IF ret.op = "predict" THEN Len(Get(models[ret.self].locs))
                                       ELSE Len(ret.args.locs)
        IN  \A i \in DOMAIN ret.labels : ret.labels[i] = Some([k \in 1..N |-> 0])




(***************************************************************************)
(* predict on a batch and on a permutation of it (SpecPredict).            *)
(***************************************************************************)
\* A GP whose kernel depends on the labels:
\* Mux(Wiener(start -1), Wiener(start -2)) + Noise('nugget').
CatGP ==
    [mean |-> 1, kernel |-> 2,
     nodes |-> <<NoVars("ZeroTrend"), Stack(<<3, 4>>),
                 Mux(<<5, 6>>), Noise("nugget"),
                 Wiener(1, 0 - 1), Wiener(1, 0 - 2)>>]

Perms(n) == {f \in [1..n -> 1..n] : \A i, j \in 1..n : f[i] = f[j] => i = j}

\* A Model holding PredictRows labelled observations, and a query batch
\* (locs2, cats2) with a permutation sigma of its rows.
InitPredict ==
    /\ phase = "query"
    /\ gp = CatGP
    /\ values = [nugget |-> <<1>>]
    /\ built \in PostInitOutcomes(gp, values)
    /\ \E n \in 1..MaxQuery :
       \E locs2 \in [1..n -> Points], cats2 \in CatChoices(n), sigma \in Perms(n) :
          cache = [locs2 |-> locs2, cats2 |-> cats2, sigma |-> sigma]
    /\ cov = None
    /\ tiebreak \in TieBreaks
    /\ models = <<NewModel(values, Nothing,
                           Some(TrainLocs(PredictRows)), Some(TrainVals(PredictRows)),
                           Some([i \in 1..PredictRows |-> i % 2]), FALSE)>>
    /\ ret = NoCall
    /\ calls = 0
    /\ seen = Nothing

\* m, v = model.predict(locs2, cats2)
PredictPlain ==
    /\ phase = "query"
    /\ seen' = Some(PredictRet(1, cache.locs2, cache.cats2, Nothing, Nothing))
    /\ phase' = "plain"
    /\ calls' = calls + 1
    /\ UNCHANGED <<gp, values, built, cache, cov, tiebreak, models, ret>>

\* m, v = model.predict(locs2[sigma], cats2[sigma])
PredictPermuted ==
    /\ phase = "plain"
    /\ ret' = PredictRet(1, Take(cache.locs2, cache.sigma),
                         IF IsNone(cache.cats2) THEN Nothing
                         ELSE Some(Take(Get(cache.cats2), cache.sigma)),
                         Nothing, Nothing)
    /\ phase' = "both"
    /\ calls' = calls + 1
    /\ UNCHANGED <<gp, values, built, cache, cov, tiebreak, models, seen>>

NextPredict == PredictPlain \/ PredictPermuted

SpecPredict == InitPredict /\ [][NextPredict]_vars

\* C5: category-permutation invariance of predict: for any query batch and
\* any permutation applied identically to its rows and labels, predict on
\* the permuted batch returns at row k exactly the mean and variance that
\* predict on the unpermuted batch returns at row sigma[k].
C5_PermutationInvariant ==
    phase = "both" =>
        /\ ret.err = Get(seen).err
        /\ ret.err = None =>
              \A k \in DOMAIN cache.sigma :
                 /\ ret.m[k] = Get(seen).m[cache.sigma[k]]
                 /\ ret.v[k] = Get(seen).v[cache.sigma[k]]

C5_Witness ==
    /\ phase = "both" /\ ret.err = None
    /\ Len(cache.sigma) = MaxQuery
    /\ cache.sigma[1] # 1
    /\ ~IsNone(cache.cats2) /\ Get(cache.cats2)[1] # Get(cache.cats2)[2]
    /\ \E j, k \in DOMAIN cache.sigma :
          Get(seen).m[j] # Get(seen).m[k] /\ Get(seen).v[j] # Get(seen).v[k]

(***************************************************************************)
(* A predict call repeated after other operations (SpecRepeat).            *)
(***************************************************************************)
\* Two Models: one that holds observations (with scalar parameters or with
\* draws), and one that holds nothing yet.
InitRepeat ==
    /\ phase = "repeat"
    /\ gp = ModelGP
    /\ values = [nugget |-> <<1>>]
    /\ built \in PostInitOutcomes(gp, values)
    /\ cache = None /\ cov = None
    /\ tiebreak \in TieBreaks
    /\ \E p \in {<<values, Nothing>>,
                 <<[nugget |-> [i \in 1..MaxDraws |-> 1 + (i % MaxValue)]], Some(MaxDraws)>>} :
          models = <<NewModel(p[1], p[2], Some(TrainLocs(MaxTrain)),
                              Some([i \in 1..MaxTrain |-> MaxTrain + 1 - i]),
                              Some([i \in 1..MaxTrain |-> i % 2]), FALSE),
                     NewModel(values, Nothing, Nothing, Nothing, Nothing, FALSE)>>
    /\ ret = NoCall
    /\ calls = 0
    /\ seen = Nothing

Step == /\ calls < MaxRepeat
        /\ calls' = calls + 1
        /\ UNCHANGED <<phase, gp, values, built, cache, cov, tiebreak>>

\* A predict call; the first one is remembered, with the number of Models
\* that existed when it was made.
RepeatPredict ==
    /\ Step
    /\ \E self \in DOMAIN models, cats2 \in {Nothing, Some(<<1, 0, 1>>)},
          reduce \in {Nothing, Some("mean")} :
       \E r \in {PredictRet(self, <<<<0>>, <<2>>, <<1>>>>, cats2, Nothing, reduce)} :
          /\ ret' = r
          /\ seen' = IF IsNone(seen) THEN Some([call |-> r, len |-> Len(models)])
                     ELSE seen
    /\ UNCHANGED models

RepeatFit ==
    /\ Step
    /\ \E self \in DOMAIN models :
       \E path \in [1..1 -> SurfaceDicts(models[self].parameters)], works \in BOOLEAN :
          Fit(self, TrainLocs(MaxTrain), TrainVals(MaxTrain),
              Some([i \in 1..MaxTrain |-> (i + 1) % 2]), 1, path, works)
    /\ UNCHANGED seen

RepeatMcmc ==
    /\ Step
    /\ \E self \in DOMAIN models :
       \E chain \in Chains(models[self].parameters, 1, 0, 1) :
          Mcmc(self, TrainLocs(MaxTrain), TrainVals(MaxTrain), Nothing, 1, 0, 1, chain)
    /\ UNCHANGED seen

RepeatGenerate ==
    /\ Step
    /\ \E self \in DOMAIN models, sample \in {[i \in 1..MaxTrain |-> i % 2],
                                             [i \in 1..MaxTrain |-> 0]} :
          Generate(self, TrainLocs(MaxTrain), Nothing, sample)
    /\ UNCHANGED seen

NextRepeat == RepeatPredict \/ RepeatFit \/ RepeatMcmc \/ RepeatGenerate

SpecRepeat == InitRepeat /\ [][NextRepeat]_vars

\* C9: determinism of predict: a predict call on the same Model with the
\* same query inputs as an earlier one returns exactly the means and
\* variances the earlier one returned, whatever operations ran in between.
C9_Deterministic ==
    (/\ ret.op = "predict" /\ ~IsNone(seen)
     /\ ret.self = Get(seen).call.self
     /\ ret.args = Get(seen).call.args)
    => (/\ ret.err = Get(seen).call.err
        /\ ret.m = Get(seen).call.m
        /\ ret.v = Get(seen).call.v)

\* The call is repeated after an operation on another Model created a Model.
C9_Witness ==
    /\ ret.op = "predict" /\ ~IsNone(seen)
    /\ ret.self = Get(seen).call.self
    /\ ret.args = Get(seen).call.args
    /\ ret.err = None
    /\ Len(models) > Get(seen).len
    /\ IsNone(models[ret.self].data)

(***************************************************************************)
(* predict with a kernel that has no noise term (SpecKrige).               *)
(***************************************************************************)
\* Noise-free GPs: Wiener(start -1), and Mux(Wiener, Wiener) + Wiener.
KrigeGPs ==
    {[mean |-> 1, kernel |-> 2,
      nodes |-> <<NoVars("ZeroTrend"), Wiener(1, 0 - 1)>>],
     [mean |-> 1, kernel |-> 2,
      nodes |-> <<NoVars("ZeroTrend"), Stack(<<3, 4>>),
                  Mux(<<5, 6>>), Wiener(1, 0 - 1),
                  Wiener(1, 0 - 1), Wiener(1, 0 - 2)>>]}

\* A Model holding up to MaxTrain observations at any locations (repeated
\* ones included), and a query batch of one or two rows.
InitKrige ==
    /\ phase = "trained"
    /\ gp \in KrigeGPs
    /\ values = <<>>
    /\ built \in PostInitOutcomes(gp, values)
    /\ \E k \in 1..2 : \E locs2 \in [1..k -> Points], cats2 \in CatChoices(k) :
          cache = [locs2 |-> locs2, cats2 |-> cats2]
    /\ cov = None
    /\ tiebreak \in TieBreaks
    /\ \E n \in 1..MaxTrain :
       \E locs \in [1..n -> Points], vals \in [1..n -> 1..MaxValue], cats \in CatChoices(n) :
          models = <<NewModel(values, Nothing, Some(locs), Some(vals), cats, FALSE)>>
    /\ ret = NoCall
    /\ calls = 0
    /\ seen = Nothing

\* m, v = model.predict(locs2, cats2)
KrigePredict ==
    /\ phase = "trained"
    /\ ret' = PredictRet(1, cache.locs2, cache.cats2, Nothing, Nothing)
    /\ phase' = "predicted"
    /\ calls' = calls + 1
    /\ UNCHANGED <<gp, values, built, cache, cov, tiebreak, models, seen>>

NextKrige == KrigePredict

SpecKrige == InitKrige /\ [][NextKrige]_vars

\* The label of row i: the given one, or 0 when no labels were given.
LabelOf(cats, i) == IF IsNone(cats) THEN 0 ELSE Get(cats)[i]

\* Query row k is training row i: the same location, and the same label when
\* the kernel looks at labels.
SameSite(i, k) ==
    /\ Get(models[1].locs)[i] = cache.locs2[k]
    /\ (\E n \in DOMAIN gp.nodes : gp.nodes[n].kind = "Mux")
          => LabelOf(models[1].cats, i) = LabelOf(cache.cats2, k)

\* C11: kriging exactness: with a noise-free kernel, predict at a query
\* location equal to a training location returns the training value there
\* as the mean and a variance of exactly 0.
C11_KrigingExact ==
    (phase = "predicted" /\ ret.err = None) =>
        \A k \in DOMAIN cache.locs2, i \in DOMAIN Get(models[1].locs) :
            SameSite(i, k) =>
                /\ ret.m[k] = <<Get(models[1].vals)[i], 1>>
                /\ ret.v[k] = <<0, 1>>

C11_Witness ==
    /\ phase = "predicted" /\ ret.err = None
    /\ Len(gp.nodes) > 2
    /\ Len(cache.locs2) = 2
    /\ SameSite(2, 1)
    /\ \A i \in DOMAIN Get(models[1].locs) : ~SameSite(i, 2)
    /\ ret.v[2] # <<0, 1>>
    /\ Get(models[1].vals)[1] # Get(models[1].vals)[2]

\* The mean and variance predict gives for query row k asked on its own.
AloneAt(k) ==
    Interpolate(gp, 2, Get(models[1].locs), Get(models[1].vals), models[1].cats,
                <<cache.locs2[k]>>,
                IF IsNone(cache.cats2) THEN Nothing ELSE Some(<<Get(cache.cats2)[k]>>),
                Scalars(<<>>), tiebreak)

\* C22: for every training-set size N1 >= 1 and every N2 >= 1 query rows
\* (the training covariance being invertible), predict splits the query
\* rows into consecutive non-empty batches of at most N1 rows that cover
\* every row once, and returns N2 means and N2 variances in query order.
C22_QueryBatches ==
    (phase = "predicted" /\ ret.err # "matrix not invertible") =>
        LET N1 == Len(Get(models[1].locs))
            N2 == Len(cache.locs2)
            b  == ret.batches
        IN  /\ ret.err = None
            /\ Len(b) >= 1 /\ b[1].start = 0 /\ b[Len(b)].stop = N2
            /\ \A k \in DOMAIN b : b[k].start < b[k].stop /\ b[k].stop - b[k].start <= N1
            /\ \A k \in 1..(Len(b) - 1) : b[k + 1].start = b[k].stop
            /\ Len(ret.m) = N2 /\ Len(ret.v) = N2
            /\ \A k \in 1..N2 : ret.m[k] = AloneAt(k).m[1] /\ ret.v[k] = AloneAt(k).v[1]


(***************************************************************************)
(* predict on a Model that holds posterior draws (SpecDraws).              *)
(***************************************************************************)
\* A Model with 1..MaxPosterior draws of nugget and MaxTrain observations.
InitDraws ==
    /\ phase = "sampled"
    /\ gp = ModelGP
    /\ values = [nugget |-> <<1>>]
    /\ built \in PostInitOutcomes(gp, values)
    /\ cache = None /\ cov = None
    /\ tiebreak \in TieBreaks
    /\ \E S \in 1..MaxPosterior : \E draws \in [1..S -> 1..MaxValue] :
          models = <<NewModel([nugget |-> draws], Some(S),
                              Some(TrainLocs(MaxTrain)), Some(TrainVals(MaxTrain)),
                              Nothing, FALSE)>>
    /\ ret = NoCall
    /\ calls = 0
    /\ seen = Nothing

\* m, v = model.predict(locs2) or model.predict(locs2, subsample=n)
DrawsPredict ==
    /\ phase = "sampled"
    /\ \E subsample \in {Nothing} \cup
                        {Some(n) : n \in 1..Get(models[1].parameter_sample_size)} :
          ret' = PredictRet(1, <<<<0>>, <<2>>>>, Nothing, subsample, Nothing)
    /\ phase' = "mixed"
    /\ calls' = calls + 1
    /\ UNCHANGED <<gp, values, built, cache, cov, tiebreak, models, seen>>

NextDraws == DrawsPredict

SpecDraws == InitDraws /\ [][NextDraws]_vars

\* C12: mixture-variance identity: the overall mean is the average of the
\* per-draw means, the overall variance is mean(draw variance + draw mean^2)
\* minus the overall mean squared, and when all combined draws have the same
\* mean and the same variance the combination returns that mean and variance.
C12_MixtureIdentity ==
    (phase = "mixed" /\ ret.err = None) =>
        \A b \in DOMAIN ret.m :
            LET n == <<Len(ret.per), 1>> IN
            /\ RMul(n, ret.m[b]) = RSum([i \in DOMAIN ret.per |-> ret.per[i].m[b]])
            /\ RMul(n, RAdd(ret.v[b], RMul(ret.m[b], ret.m[b])))
                 = RSum([i \in DOMAIN ret.per |->
                           RAdd(ret.per[i].v[b], RMul(ret.per[i].m[b], ret.per[i].m[b]))])
            /\ (\A i \in DOMAIN ret.per : ret.per[i] = ret.per[1])
                  => (ret.m[b] = ret.per[1].m[b] /\ ret.v[b] = ret.per[1].v[b])

C12_Witness ==
    /\ phase = "mixed" /\ ret.err = None
    /\ Len(ret.per) >= 2
    /\ \A i \in DOMAIN ret.per : ret.per[i] = ret.per[1]
    /\ ret.m[2] # <<0, 1>> /\ ret.v[2] # <<0, 1>>
    /\ ret.v = ret.per[1].v

\* C13: with samples draws and 1 <= subsample <= samples, predict runs the
\* interpolation for exactly subsample distinct draws, consecutive ones
\* floor or ceil of samples / subsample apart, and never indexes past the
\* selected draws; with subsample omitted every draw is used exactly once.
C13_EvenlyThinned ==
    phase = "mixed" =>
        LET S == Get(models[1].parameter_sample_size)
            s == IF IsNone(ret.args.subsample) THEN S ELSE Get(ret.args.subsample)
            d == ret.draws
        IN  /\ ret.err = None
            /\ Len(d) = s
            /\ \A i \in 1..(Len(d) - 1) :
                  d[i + 1] - d[i] \in {S \div s, (S + s - 1) \div s}
            /\ IsNone(ret.args.subsample) => d = [i \in 1..S |-> i]

(***************************************************************************)
(* The Noise kernel, alone and under a Mux (SpecNoise).                    *)
(***************************************************************************)
\* GP(0, Noise('nugget')) and GP(0, Mux(Noise('nugget'), Noise('nugget'))).
NoiseGPs ==
    {[mean |-> 1, kernel |-> 2,
      nodes |-> <<NoVars("ZeroTrend"), Noise("nugget")>>],
     [mean |-> 1, kernel |-> 2,
      nodes |-> <<NoVars("ZeroTrend"), Mux(<<3, 4>>),
                  Noise("nugget"), Noise("nugget")>>]}

\* Category-sorted labels for n rows.
SortedLabels(n) == {cats \in Labels(n, 2) : IsSorted(cats)}

\* Two batches of up to MaxRows rows with sorted labels, and an offset.
InitNoise ==
    /\ phase = "new"
    /\ gp \in NoiseGPs
    /\ values \in {[nugget |-> v] : v \in 1..MaxValue}
    /\ built = None
    /\ \E n1 \in 0..MaxRows, n2 \in 0..MaxRows :
       \E cats1 \in SortedLabels(n1), cats2 \in SortedLabels(n2) :
       \E offset \in (0 - 1)..MaxRows :
          cache = [locs1 |-> [i \in 1..n1 |-> <<i % (MaxCoord + 1)>>], cats1 |-> cats1,
                   locs2 |-> [i \in 1..n2 |-> <<i % (MaxCoord + 1)>>], cats2 |-> cats2,
                   offset |-> offset]
    /\ cov = None
    /\ tiebreak = "stable" /\ models = <<>> /\ ret = None /\ calls = 0 /\ seen = <<>>

NextNoise == Assemble

SpecNoise == InitNoise /\ [][NextNoise]_vars

\* C19: entry (i, j) of the Noise covariance is nugget exactly when
\* i = j + offset (indices from 0) and 0 otherwise; with offset 0 the nugget
\* sits on the main diagonal only, and with offset = the number of rows of
\* the first batch, as in predict's cross-covariance, the matrix is zero.
C19_NoiseOffset ==
    (phase = "assembled" /\ gp.nodes[gp.kernel].kind = "Noise")
    =>  /\ \A i \in DOMAIN cache.locs1, j \in DOMAIN cache.locs2 :
              cov.C[i][j] = IF i - 1 = (j - 1) + cache.offset THEN values.nugget ELSE 0
        /\ cache.offset = 0 =>
              \A i \in DOMAIN cache.locs1, j \in DOMAIN cache.locs2 :
                 cov.C[i][j] # 0 <=> i = j
        /\ cache.offset = Len(cache.locs1) =>
              \A i \in DOMAIN cache.locs1, j \in DOMAIN cache.locs2 : cov.C[i][j] = 0

C19_Witness ==
    /\ phase = "assembled" /\ gp.nodes[gp.kernel].kind = "Noise"
    /\ cache.offset = 1
    /\ Len(cache.locs1) = 3 /\ Len(cache.locs2) = 2
    /\ cov.C[2][1] = values.nugget /\ cov.C[3][2] = values.nugget
    /\ cov.C[1][1] = 0 /\ cov.C[2][2] = 0

\* The matrix a single Noise('nugget') gives on the whole batches.
PlainNoise == NoiseCall(Noise("nugget"), cache, Scalars(values))

\* Rows with the same global index carry the same label.
SameIndexSameLabel ==
    \A i \in DOMAIN cache.cats1, j \in DOMAIN cache.cats2 :
        (i - 1 = (j - 1) + cache.offset) => cache.cats1[i] = cache.cats2[j]

Mix(inputs, weights) ==
    [kind |-> "Mix", vars |-> {}, kids |-> inputs, weights |-> weights]

\* isinstance(row, (tuple, list))
IsListRow(row) == row.form \in {"list", "tuple"}

\* The loop of Mix.call over v['weights']: the rows appended to weights.
MixWeights(rows) ==
    LET kept == SelectSeq(rows, IsListRow)
    IN  [r \in DOMAIN kept |-> kept[r].coefs]

\* Mix.call on the outputs of its inputs: the outcomes it can have.
\* tf.stack of no rows fails; tf.gather of a label past the last row fails
\* on a CPU and gives a row of zeros on a GPU.
MixCall(node, inputs, e) ==
    Only({
      IF weights = <<>>
      THEN {[err |-> "ValueError: stack of an empty list", C |-> <<>>]}
      ELSE LET row(c) == IF c + 1 \in DOMAIN weights THEN weights[c + 1]
                         ELSE [h \in DOMAIN inputs |-> 0]
               C == Matrix(Len(e.locs1), Len(e.locs2),
                      LAMBDA i, j :
                        SumSeq([h \in DOMAIN inputs |->
                                  inputs[h][i][j] * row(e.cats1[i])[h]
                                                  * row(e.cats2[j])[h]]))
           IN  IF \E c \in Range(e.cats1) \cup Range(e.cats2) : c + 1 \notin DOMAIN weights
               THEN {[err |-> "InvalidArgumentError: indices out of range", C |-> <<>>],
                     [err |-> None, C |-> C]}
               ELSE {[err |-> None, C |-> C]} :
      weights \in {MixWeights(node.weights)}})

\* The outputs of the inputs of the root Mix on the whole batches.
MixInputs(g, e, p) ==
    [h \in DOMAIN g.nodes[g.kernel].kids |->
        KernelRun(g.nodes, g.nodes[g.kernel].kids[h], e, p)]

\* Weight rows for two categories and two inputs.
WeightRows ==
    [form : {"list", "vector"}, coefs : [1..2 -> 0..MaxWeight]]

\* GP(0, Mix([Wiener(axis=0, start=-1), Delta('dsill')], [row0, row1])).
MixGP(row0, row1) ==
    [mean |-> 1, kernel |-> 2,
     nodes |-> <<NoVars("ZeroTrend"), Mix(<<3, 4>>, <<row0, row1>>),
                 Wiener(1, 0 - 1), Delta("dsill")>>]

MixBatches == UNION {[1..k -> Points] : k \in 0..MaxMixRows}

InitMix ==
    /\ phase = "new"
    /\ \E row0 \in WeightRows, row1 \in WeightRows : gp = MixGP(row0, row1)
    /\ values = [dsill |-> 3]
    /\ built = None
    /\ \E locs1 \in MixBatches, locs2 \in MixBatches :
       \E cats1 \in Labels(Len(locs1), 2), cats2 \in Labels(Len(locs2), 2) :
          cache = [locs1 |-> locs1, cats1 |-> cats1,
                   locs2 |-> locs2, cats2 |-> cats2, offset |-> 0]
    /\ cov = None
    /\ tiebreak = "stable" /\ models = <<>> /\ ret = None /\ calls = 0 /\ seen = <<>>

\* gp.kernel.run(cache, p) for the Mix at the root.
AssembleMix ==
    /\ phase = "new"
    /\ cov' \in MixCall(gp.nodes[gp.kernel], MixInputs(gp, cache, Scalars(values)), cache)
    /\ phase' = "assembled"
    /\ UNCHANGED <<gp, values, built, cache, tiebreak, models, ret, calls, seen>>

NextMix == AssembleMix

SpecMix == InitMix /\ [][NextMix]_vars

\* The weight of category c on input h, from the rows as they were given.
GivenWeight(c, h) == gp.nodes[gp.kernel].weights[c + 1].coefs[h]

\* C21: for any category labels, entry (i, j) of the Mix covariance is the
\* sum over the inputs h of C_h(loc_i, loc_j) * w[cats1[i], h] * w[cats2[j], h]
\* where row c of w is the c-th weight row given at construction; so the
\* matrix is symmetric when both batches are the same.
C21_MixWeights ==
    phase = "assembled" =>
        /\ cov.err = None
        /\ \A i \in DOMAIN cache.locs1, j \in DOMAIN cache.locs2 :
              cov.C[i][j] =
                 SumSeq([h \in 1..2 |->
                    MixInputs(gp, cache, Scalars(values))[h][i][j]
                       * GivenWeight(cache.cats1[i], h) * GivenWeight(cache.cats2[j], h)])
        /\ (cache.locs1 = cache.locs2 /\ cache.cats1 = cache.cats2) =>
              \A i \in DOMAIN cache.locs1, j \in DOMAIN cache.locs1 :
                 cov.C[i][j] = cov.C[j][i]

(***************************************************************************)
(* Evaluation passes over graphs with shared nodes (SpecShare).            *)
(***************************************************************************)
\* The nodes a node evaluates first through its autoinputs: the parts of a
\* Stack or Product and the inputs of a Mix.  The inputs of a Mux are not
\* autoinputs: Mux.call runs them itself.
AutoInputs(node) ==
    IF node.kind \in {"Stack", "Product", "Mix"} THEN node.kids ELSE <<>>

\* Op.run(cache, p) looks the node up in the cache it is handed.
InCache(log, c, n) == \E i \in DOMAIN log : log[i] = [cache |-> c, node |-> n]

\* The cache Mux.call hands to an input: a new dict for every input, here
\* the next unused cache number.
BranchCache_Outer(c, next) == c
BranchCache(c, next) == next

\* One evaluation pass, as the list of (cache, node) evaluations it makes.
\* st.log is the list so far and st.next the next unused cache number.
RECURSIVE RunNode(_, _, _, _)
RECURSIVE RunInputs(_, _, _, _)
RECURSIVE RunBranches(_, _, _, _)

\* node.run(cache, p): nothing when the cache holds the node, else the
\* autoinputs, then the node's own call, then the entry in the cache.
RunNode(nodes, n, c, st) ==
    IF InCache(st.log, c, n) THEN st
    ELSE Only({[log |-> Append(called.log, [cache |-> c, node |-> n]),
                next |-> called.next] :
           called \in {IF nodes[n].kind = "Mux"
                       THEN RunBranches(nodes, nodes[n].kids, c, st)
                       ELSE RunInputs(nodes, AutoInputs(nodes[n]), c, st)}})

RunInputs(nodes, kids, c, st) ==
    IF kids = <<>> THEN st
    ELSE RunInputs(nodes, Tail(kids), c, RunNode(nodes, kids[1], c, st))

\* The loop of Mux.call: iput.run(cache, p) on a cache of its own.
RunBranches(nodes, kids, c, st) ==
    IF kids = <<>> THEN st
    ELSE RunBranches(nodes, Tail(kids), c,
            RunNode(nodes, kids[1], BranchCache(c, st.next),
                    [st EXCEPT !.next = @ + 1]))

\* gp_covariance2: cache = {}, then the mean and the kernel run on it.
AssemblyLog(g) ==
    RunNode(g.nodes, g.kernel, 0,
            RunNode(g.nodes, g.mean, 0, [log |-> <<>>, next |-> 1])).log

\* GPs with a node shared between parents: Wiener (node 5) under two Stacks;
\* under both inputs of a Mux; inside a Mux and beside it.
ShareGPs ==
    {[mean |-> 1, kernel |-> 2,
      nodes |-> <<NoVars("ZeroTrend"), Stack(<<3, 4>>),
                  Stack(<<5, 6>>), Stack(<<5, 7>>),
                  Wiener(1, 0 - 1), Noise("nugget"), Delta("dsill")>>],
     [mean |-> 1, kernel |-> 2,
      nodes |-> <<NoVars("ZeroTrend"), Mux(<<3, 4>>),
                  Stack(<<5, 6>>), Stack(<<5, 7>>),
                  Wiener(1, 0 - 1), Noise("nugget"), Delta("dsill")>>],
     [mean |-> 1, kernel |-> 2,
      nodes |-> <<NoVars("ZeroTrend"), Stack(<<3, 5>>),
                  Mux(<<4, 5>>), Stack(<<5, 6>>),
                  Wiener(1, 0 - 1), Noise("nugget")>>]}

InitShare ==
    /\ phase = "new"
    /\ gp \in ShareGPs
    /\ values \in KernelParams
    /\ built = None
    /\ \E n1 \in 0..MaxRows, n2 \in 0..MaxRows :
       \E cats1 \in SortedLabels(n1), cats2 \in SortedLabels(n2) :
          cache = [locs1 |-> [i \in 1..n1 |-> <<i % (MaxCoord + 1)>>], cats1 |-> cats1,
                   locs2 |-> [i \in 1..n2 |-> <<i % (MaxCoord + 1)>>], cats2 |-> cats2,
                   offset |-> 0]
    /\ cov = None
    /\ tiebreak = "stable" /\ models = <<>> /\ ret = None /\ calls = 0 /\ seen = <<>>

\* One more call of gp_covariance2 on the same GP and batches.
AssembleAgain ==
    /\ calls < MaxRepeat
    /\ cov' = GpCovariance2(gp, cache.locs1, cache.cats1, cache.locs2, cache.cats2,
                            cache.offset, Scalars(values))
    /\ seen' = Append(seen, AssemblyLog(gp))
    /\ calls' = calls + 1
    /\ phase' = "assembled"
    /\ UNCHANGED <<gp, values, built, cache, tiebreak, models, ret>>

NextShare == AssembleAgain

SpecShare == InitShare /\ [][NextShare]_vars

\* How often a pass evaluated node n, and in how many caches.
TimesRun(log, n) == Cardinality({i \in DOMAIN log : log[i].node = n})
CachesOf(log) == {log[i].cache : i \in DOMAIN log}

\* C24 as stated: within one assembly call every node is evaluated at most
\* once, also when it is shared between the inputs of a Mux or sits both
\* inside and outside a Mux; and no call sees the cache of another.
C24_Original ==
    \A k \in DOMAIN seen :
        /\ \A n \in DOMAIN gp.nodes : TimesRun(seen[k], n) <= 1
        /\ seen[k] = seen[1]

\* C24 amended: within one assembly call every node is evaluated at most
\* once per cache: once in the cache of the call when it is reached outside
\* a Mux, however many parents share it, and once more in the cache each Mux
\* input is run on when it is reached from there; and every call starts
\* from an empty cache, so it repeats the evaluations of the one before.
C24_OncePerCache ==
    \A k \in DOMAIN seen :
        LET log == seen[k] IN
        /\ \A i \in DOMAIN log, j \in DOMAIN log : log[i] = log[j] => i = j
        /\ \A n \in DOMAIN gp.nodes :
              TimesRun(log, n) = Cardinality({c \in CachesOf(log) : InCache(log, c, n)})
        /\ Cardinality(CachesOf(log)) =
              1 + SumSeq([i \in DOMAIN log |->
                            IF gp.nodes[log[i].node].kind = "Mux"
                            THEN Len(gp.nodes[log[i].node].kids) ELSE 0])
        /\ gp.nodes[gp.kernel].kind = "Stack" /\ gp.nodes[3].kind = "Stack"
              => \A n \in DOMAIN gp.nodes : TimesRun(log, n) = 1
        /\ seen[k] = seen[1]

\* C24 witness: two calls on the GP whose Wiener node sits inside a Mux and
\* beside it; each call evaluates it in three caches.
C24_Witness ==
    /\ Len(seen) = 2
    /\ gp.nodes[3].kind = "Mux"
    /\ TimesRun(seen[2], 5) = 3
    /\ TimesRun(seen[2], 2) = 1

(***************************************************************************)
(* The category arrays covariance assembly receives (SpecSorted).          *)
(***************************************************************************)
\* m, v = model.predict(locs2, cats2, pair=True) as a call record.
PairsRet(self, locs2, cats2) ==
    Only({[NoCall EXCEPT !.op = "pairs", !.self = self,
              !.args = [locs2 |-> locs2, cats2 |-> cats2],
              !.err = r.err, !.m = r.m, !.v = r.v, !.asm = r.asm, !.inv = r.inv,
              !.batches = IF "batches" \in DOMAIN r THEN r.batches ELSE <<>>,
              !.passed = IF "passed" \in DOMAIN r THEN r.passed ELSE <<>>] :
            r \in {PredictPairs(models[self], gp, locs2, cats2, tiebreak)}})

\* A Model holding PredictRows labelled observations and a data-free one,
\* under a GP whose kernel depends on the labels.
InitSorted ==
    /\ phase = "ask"
    /\ gp = CatGP
    /\ values = [nugget |-> <<1>>]
    /\ built \in PostInitOutcomes(gp, values)
    /\ cache = None /\ cov = None
    /\ tiebreak \in TieBreaks
    /\ models = <<NewModel(values, Nothing,
                           Some(TrainLocs(PredictRows)), Some(TrainVals(PredictRows)),
                           Some([i \in 1..PredictRows |-> i % 2]), FALSE),
                  NewModel(values, Nothing, Nothing, Nothing, Nothing, FALSE)>>
    /\ ret = NoCall
    /\ calls = 0
    /\ seen = Nothing

Asked ==
    /\ phase = "ask"
    /\ phase' = "answered"
    /\ calls' = calls + 1
    /\ UNCHANGED <<gp, values, built, cache, cov, tiebreak>>

SortedFit ==
    /\ Asked
    /\ \E self \in DOMAIN models, cats \in CatChoices(MaxQuery), iters \in 0..MaxIters :
       \E path \in [1..iters -> SurfaceDicts(models[self].parameters)] :
          Fit(self, TrainLocs(MaxQuery), TrainVals(MaxQuery), cats, iters, path, TRUE)
    /\ UNCHANGED seen

SortedMcmc ==
    /\ Asked
    /\ \E self \in DOMAIN models, cats \in CatChoices(MaxQuery) :
       \E chain \in Chains(models[self].parameters, 1, 0, 1) :
          Mcmc(self, TrainLocs(MaxQuery), TrainVals(MaxQuery), cats, 1, 0, 1, chain)
    /\ UNCHANGED seen

SortedGenerate ==
    /\ Asked
    /\ \E self \in DOMAIN models, cats \in CatChoices(MaxQuery) :
       \E sample \in [1..MaxQuery -> 0..1] :
          Generate(self, TrainLocs(MaxQuery), cats, sample)
    /\ UNCHANGED seen

\* m, v = model.predict(locs2, cats2), and after it the same for every
\* query row on its own: model.predict(locs2[b:b+1], cats2[b:b+1]).
SortedPredict ==
    /\ Asked
    /\ \E n \in 1..MaxQuery :
       \E locs2 \in [1..n -> Points], cats2 \in CatChoices(n) :
          /\ ret' = PredictRet(1, locs2, cats2, Nothing, Nothing)
          /\ seen' = Some([b \in 1..n |->
                        PredictRet(1, <<locs2[b]>>,
                                   IF IsNone(cats2) THEN Nothing
                                   ELSE Some(<<Get(cats2)[b]>>), Nothing, Nothing)])
    /\ UNCHANGED models

\* The same two steps with pair=True.
SortedPairs ==
    /\ Asked
    /\ \E n \in 1..MaxQuery :
       \E locs2 \in [1..n -> Points \X Points], cats2 \in CatChoices(n) :
          /\ ret' = PairsRet(1, locs2, cats2)
          /\ seen' = Some([b \in 1..n |->
                        PairsRet(1, <<locs2[b]>>,
                                 IF IsNone(cats2) THEN Nothing
                                 ELSE Some(<<Get(cats2)[b]>>))])
    /\ UNCHANGED models

NextSorted == SortedFit \/ SortedMcmc \/ SortedGenerate \/ SortedPredict \/ SortedPairs

SpecSorted == InitSorted /\ [][NextSorted]_vars

\* C25: in every covariance assembly made by fit, mcmc, generate or predict
\* (pair mode and every query batch included) each category array handed in
\* is in non-descending order, and what the call returns is back in the
\* caller's order: the returned Model holds the batch as it was given (the
\* generated value of sorted row k at the caller's row perm[k]), and the
\* prediction of every query row is the one that row gets on its own.
C25_SortedAndRestored ==
    /\ \A i \in DOMAIN ret.labels :
          ~IsNone(ret.labels[i]) => IsSorted(Get(ret.labels[i]))
    /\ \A i \in DOMAIN ret.passed : IsSorted(ret.passed[i])
    /\ (ret.op \in {"fit", "mcmc", "generate"} /\ ret.new # 0) =>
          /\ models[ret.new].locs = Some(ret.args.locs)
          /\ models[ret.new].cats = ret.args.cats
          /\ ret.op # "generate" => models[ret.new].vals = Some(ret.args.vals)
          /\ ret.op = "generate" =>
                \A k \in DOMAIN ret.sample :
                    Get(models[ret.new].vals)[ret.perm[k]] = ret.sample[k]
    /\ (ret.op \in {"predict", "pairs"} /\ ret.err = None) =>
          \A b \in DOMAIN ret.args.locs2 :
              /\ Get(seen)[b].err = None
              /\ ret.m[b] = Get(seen)[b].m[1]
              /\ ret.v[b] = Get(seen)[b].v[1]

\* A pair-mode predict whose second batch arrived with its labels out of
\* order, over a training set that was stored out of order.
C25_Witness ==
    /\ ret.op = "pairs" /\ ret.err = None
    /\ Len(ret.passed) = 3
    /\ ~IsNone(ret.args.cats2)
    /\ ~IsSorted(SubSeq(Get(ret.args.cats2), 1, 2))
    /\ ~IsSorted(Get(models[1].cats))
    /\ ret.args.locs2[1] # ret.args.locs2[2]

(***************************************************************************)
(* The training penalty reg * gp.reg(sp) (SpecReg).                        *)
(***************************************************************************)
SquaredExponential(sill, range) ==
    [kind |-> "SquaredExponential", vars |-> ppp(sill) \cup ppp(range),
     kids |-> <<>>, sill |-> sill, range |-> range]

\* What tf.reduce_sum raises for a list that holds None: the conversion to a
\* tensor fails with one of these, depending on eager or graph execution.
ReduceSumErrors == {"ValueError", "TypeError"}

\* Stack.reg: tf.reduce_sum([part.reg(p) for part in self.parts], axis=0)
\* over the results parts of the parts' reg; e is what the conversion of
\* None raises.
StackReg(parts, e) ==
    LET bad == {k \in DOMAIN parts : parts[k].err # None}
    IN  IF bad # {} THEN parts[Min(bad)]
        ELSE IF \E k \in DOMAIN parts : IsNone(parts[k].val)
        THEN [err |-> e, val |-> Nothing]
        ELSE [err |-> None,
              val |-> Some(SumSeq([k \in DOMAIN parts |-> Get(parts[k].val)]))]

\* Product.reg: the same reduction.
ProductReg(parts, e) ==
    LET bad == {k \in DOMAIN parts : parts[k].err # None}
    IN  IF bad # {} THEN parts[Min(bad)]
        ELSE IF \E k \in DOMAIN parts : IsNone(parts[k].val)
        THEN [err |-> e, val |-> Nothing]
        ELSE [err |-> None,
              val |-> Some(SumSeq([k \in DOMAIN parts |-> Get(parts[k].val)]))]

\* node.reg(p): the error raised, or the value returned (Nothing for None).
\* Mix and Mux define no reg and inherit Kernel.reg, whose body is pass.
RECURSIVE KernelReg(_, _, _, _)
KernelReg(nodes, n, p, e) ==
    LET node  == nodes[n]
        parts == [k \in DOMAIN node.kids |-> KernelReg(nodes, node.kids[k], p, e)]
    IN  CASE node.kind \in {"Noise", "Delta", "Wiener"} ->
               [err |-> None, val |-> Some(0)]
          [] node.kind = "SquaredExponential" ->
               [err |-> None, val |-> Some(p[node.range])]
          [] node.kind = "Stack"   -> StackReg(parts, e)
          [] node.kind = "Product" -> ProductReg(parts, e)
          [] node.kind \in {"Mix", "Mux"} ->
               [err |-> None, val |-> Nothing]

\* GP.reg
GPReg(g, sp, e) == KernelReg(g.nodes, g.kernel, sp, e)

\* The penalty of gp_train_step: reg * gp.reg(sp) if reg else 0.
RegPenalty(g, sp, reg, e) ==
    IF IsNone(reg) \/ reg = Some(0)
    THEN [err |-> None, reg_penalty |-> Some(0)]
    ELSE Only({IF r.err # None THEN [err |-> r.err, reg_penalty |-> Nothing]
               ELSE IF IsNone(r.val)
               THEN [err |-> "TypeError", reg_penalty |-> Nothing]
               ELSE [err |-> None, reg_penalty |-> Some(Get(reg) * Get(r.val))] :
                 r \in {GPReg(g, sp, e)}})

\* GPs to train: sums and products of a SquaredExponential and a Noise, a
\* Stack inside a Product, and trees that hold a Mix or a Mux, among them
\* the kernel of Mix(...) + Mux(...).
RegShapes == {"sum", "product", "nested", "stackmux", "mix", "mixmux"}

RegGP(shape) ==
    CASE shape = "sum" ->
           [mean |-> 1, kernel |-> 2,
            nodes |-> <<NoVars("ZeroTrend"), Stack(<<3, 4>>),
                        SquaredExponential("sill", "range"), Noise("nugget")>>]
      [] shape = "product" ->
           [mean |-> 1, kernel |-> 2,
            nodes |-> <<NoVars("ZeroTrend"), Product(<<3, 4>>),
                        SquaredExponential("sill", "range"), Noise("nugget")>>]
      [] shape = "nested" ->
           [mean |-> 1, kernel |-> 2,
            nodes |-> <<NoVars("ZeroTrend"), Product(<<3, 4>>),
                        Stack(<<4, 5>>), SquaredExponential("sill", "range"),
                        Noise("nugget")>>]
      [] shape = "stackmux" ->
           [mean |-> 1, kernel |-> 2,
            nodes |-> <<NoVars("ZeroTrend"), Stack(<<3, 4>>),
                        SquaredExponential("sill", "range"), Mux(<<5, 6>>),
                        Noise("nugget"), Wiener(1, 0 - 1)>>]
      [] shape = "mix" ->
           [mean |-> 1, kernel |-> 2,
            nodes |-> <<NoVars("ZeroTrend"),
                        Mix(<<3, 4>>, <<[form |-> "list", coefs |-> <<1, 0>>],
                                        [form |-> "list", coefs |-> <<0, 1>>]>>),
                        SquaredExponential("sill", "range"), Noise("nugget")>>]
      [] shape = "mixmux" ->
           [mean |-> 1, kernel |-> 2,
            nodes |-> <<NoVars("ZeroTrend"), Stack(<<3, 4>>),
                        Mix(<<5, 6>>, <<[form |-> "list", coefs |-> <<1, 0>>],
                                        [form |-> "list", coefs |-> <<0, 1>>]>>),
                        Mux(<<6, 7>>),
                        SquaredExponential("sill", "range"), Noise("nugget"),
                        Wiener(1, 0 - 1)>>]

\* The current surface parameters: one number per name.
Surface(vals) == [name \in DOMAIN vals |-> vals[name][1]]

\* A constructed Model about to be trained with fit(..., reg=reg).
InitReg ==
    /\ phase = "training"
    /\ \E shape \in RegShapes : gp = RegGP(shape)
    /\ values \in [NamesOf(GPGatherVars(gp).vars) -> {<<v>> : v \in 1..MaxValue}]
    /\ built \in PostInitOutcomes(gp, values)
    /\ cache \in {[reg |-> r] : r \in {Nothing} \cup {Some(w) : w \in 0..MaxReg}}
    /\ cov = None
    /\ tiebreak = "stable" /\ models = <<>>
    /\ ret = [op |-> "none", err |-> None, sp |-> <<>>, reg_penalty |-> Nothing]
    /\ calls = 0
    /\ seen = Nothing

\* One gp_train_step of fit: the penalty is computed on the surface
\* parameters, then apply_gradients moves the parameters.
TrainStep ==
    /\ phase = "training"
    /\ built.ok
    /\ calls < MaxIters
    /\ \E e \in ReduceSumErrors :
       \E out \in {RegPenalty(gp, Surface(values), cache.reg, e)} :
          /\ ret' = [op |-> "gp_train_step", err |-> out.err,
                     sp |-> Surface(values), reg_penalty |-> out.reg_penalty]
          /\ IF out.err # None
             THEN phase' = "failed" /\ values' = values
             ELSE /\ phase' = phase
                  /\ values' \in [DOMAIN values -> {<<v>> : v \in 1..MaxValue}]
    /\ calls' = calls + 1
    /\ UNCHANGED <<gp, built, cache, cov, tiebreak, models, seen>>

NextReg == TrainStep

SpecReg == InitReg /\ [][NextReg]_vars

\* The sum of the reg() contributions of the nodes below n: the range of a
\* SquaredExponential, 0 for the other leaves, the children's sum for every
\* combinator.
RECURSIVE RegTotal(_, _, _)
RegTotal(nodes, n, p) ==
    IF nodes[n].kind = "SquaredExponential" THEN p[nodes[n].range]
    ELSE SumSeq([k \in DOMAIN nodes[n].kids |-> RegTotal(nodes, nodes[n].kids[k], p)])

\* C27: every kernel node returns a numeric reg() and every combinator
\* (Stack, Product, Mix, Mux) the sum of its children's, so a training step
\* of fit with a non-zero reg weight computes the numeric penalty
\* reg * gp.reg(sp) for every GP built from these nodes.
C27_NumericPenalty ==
    (/\ ret.op = "gp_train_step"
     /\ ~IsNone(cache.reg) /\ cache.reg # Some(0))
    =>  /\ ret.err = None
        /\ ret.reg_penalty = Some(Get(cache.reg) * RegTotal(gp.nodes, gp.kernel, ret.sp))

(***************************************************************************)
(* Building kernels with + (SpecAdd).                                      *)
(***************************************************************************)
\* Kernel objects as values: a kind and, for a Stack, its parts.  NoKernel
\* is Python's None.
LeafKinds == {"Noise", "Delta", "Wiener", "Mux", "Product"}
LeafKernel(kind) == [kind |-> kind, parts |-> <<>>]
StackKernel(parts) == [kind |-> "Stack", parts |-> parts]
NoKernel == [kind |-> "None", parts |-> <<>>]

\* isinstance(other, Kernel)
IsKernel(x) == x.kind # "None"

\* Stack.__add__: a Stack with other appended to the parts when other is a
\* Kernel; otherwise the method falls off its end and returns None.
StackAdd(self, other) ==
    IF IsKernel(other) THEN StackKernel(Append(self.parts, other)) ELSE NoKernel

\* self + other for a Kernel self: Stack overrides __add__, every other
\* kernel uses Kernel.__add__.
KernelAdd(self, other) ==
    IF self.kind = "Stack" THEN StackAdd(self, other)
    ELSE IF other = NoKernel THEN self
    ELSE StackAdd(StackKernel(<<self>>), other)

\* Three operands a, b, c: a is a kernel, b and c are kernels or None.
InitAdd ==
    /\ phase = "operands"
    /\ gp = None /\ values = None /\ built = None
    /\ \E a \in {LeafKernel(k) : k \in LeafKinds},
          b \in {LeafKernel(k) : k \in LeafKinds} \cup {NoKernel},
          c \in {LeafKernel(k) : k \in LeafKinds} \cup {NoKernel} :
          cache = [a |-> a, b |-> b, c |-> c]
    /\ cov = None
    /\ tiebreak = "stable" /\ models = <<>>
    /\ ret = NoKernel
    /\ calls = 0
    /\ seen = Nothing

\* inner = a + b
AddLeft ==
    /\ phase = "operands"
    /\ seen' = Some(KernelAdd(cache.a, cache.b))
    /\ phase' = "left"
    /\ calls' = calls + 1
    /\ UNCHANGED <<gp, values, built, cache, cov, tiebreak, models, ret>>

\* inner = b + c
AddRight ==
    /\ phase = "operands"
    /\ IsKernel(cache.b)
    /\ seen' = Some(KernelAdd(cache.b, cache.c))
    /\ phase' = "right"
    /\ calls' = calls + 1
    /\ UNCHANGED <<gp, values, built, cache, cov, tiebreak, models, ret>>

\* (a + b) + c
AddOuterLeft ==
    /\ phase = "left"
    /\ ret' = KernelAdd(Get(seen), cache.c)
    /\ phase' = "left sum"
    /\ calls' = calls + 1
    /\ UNCHANGED <<gp, values, built, cache, cov, tiebreak, models, seen>>

\* a + (b + c)
AddOuterRight ==
    /\ phase = "right"
    /\ ret' = KernelAdd(cache.a, Get(seen))
    /\ phase' = "right sum"
    /\ calls' = calls + 1
    /\ UNCHANGED <<gp, values, built, cache, cov, tiebreak, models, seen>>

NextAdd == AddLeft \/ AddRight \/ AddOuterLeft \/ AddOuterRight

SpecAdd == InitAdd /\ [][NextAdd]_vars

\* C28: for kernels a, b and c, both (a + b) + c and a + (b + c) are one
\* Stack whose parts are exactly a, b, c, with no Stack among the parts, and
\* adding a kernel to a Stack gives a kernel.
C28_Flattened ==
    (/\ phase \in {"left sum", "right sum"}
     /\ IsKernel(cache.b) /\ IsKernel(cache.c))
    =>  /\ ret = StackKernel(<<cache.a, cache.b, cache.c>>)
        /\ \A i \in DOMAIN ret.parts : ret.parts[i].kind # "Stack"
        /\ IsKernel(ret)

(***************************************************************************)
(* A kernel built with * beside the one built with + (SpecProduct).        *)
(***************************************************************************)
\* Stack.vars and Product.vars: [p for part in self.parts for p in
\* part.vars()], the declarations of the parts taken together.
RECURSIVE KernelVars(_, _)
StackVars(nodes, node) ==
    UNION {KernelVars(nodes, node.kids[k]) : k \in DOMAIN node.kids}
ProductVars(nodes, node) ==
    UNION {KernelVars(nodes, node.kids[k]) : k \in DOMAIN node.kids}

\* node.vars()
KernelVars(nodes, n) ==
    CASE nodes[n].kind = "Stack"   -> StackVars(nodes, nodes[n])
      [] nodes[n].kind = "Product" -> ProductVars(nodes, nodes[n])
      [] OTHER                     -> nodes[n].vars

\* The kernels multiplied or added.
PartKernels ==
    {Noise("nugget"), Delta("dsill"), Wiener(1, 0 - 1),
     SquaredExponential("sill", "range")}

\* GP(0, k1 * k2 * ...): Kernel.__mul__ makes Product([k1]) * k2 and
\* Product.__mul__ appends each further kernel to the parts.
TimesGP(parts) ==
    [mean |-> 1, kernel |-> 2,
     nodes |-> <<NoVars("ZeroTrend"), Product([k \in DOMAIN parts |-> k + 2])>> \o parts]

\* GP(0, k1 + k2 + ...): the Stack over the same parts.
PlusGP(parts) ==
    [mean |-> 1, kernel |-> 2,
     nodes |-> <<NoVars("ZeroTrend"), Stack([k \in DOMAIN parts |-> k + 2])>> \o parts]

PartsOf(g) == SubSeq(g.nodes, 3, Len(g.nodes))

\* Two or three kernels multiplied, parameter values, and two batches.
InitProduct ==
    /\ phase = "built"
    /\ \E n \in 2..3 : \E parts \in [1..n -> PartKernels] : gp = TimesGP(parts)
    /\ \E r \in 1..MaxValue : values = [nugget |-> 2, dsill |-> 3, sill |-> 1, range |-> r]
    /\ built = None
    /\ \E locs1 \in MixBatches, locs2 \in MixBatches :
          cache = [locs1 |-> locs1, locs2 |-> locs2]
    /\ cov = Nothing
    /\ tiebreak = "stable" /\ models = <<>>
    /\ ret = Nothing
    /\ calls = 0
    /\ seen = Nothing

\* The covariance of the product, of the sum and of every part on the same
\* batches (the parts that are evaluated in integers).
RunBoth ==
    /\ phase = "built"
    /\ IsNone(cov)
    /\ \A k \in DOMAIN PartsOf(gp) : PartsOf(gp)[k].kind # "SquaredExponential"
    /\ LET zeros(locs) == [i \in DOMAIN locs |-> 0]
           run(g) == GpCovariance2(g, cache.locs1, zeros(cache.locs1),
                                   cache.locs2, zeros(cache.locs2), 0,
                                   Scalars(values)).C
       IN  cov' = Some([times |-> run(TimesGP(PartsOf(gp))),
                        plus  |-> run(PlusGP(PartsOf(gp))),
                        parts |-> [k \in DOMAIN PartsOf(gp) |->
                                     run([mean |-> 1, kernel |-> k + 2,
                                          nodes |-> gp.nodes])]])
    /\ calls' = calls + 1
    /\ UNCHANGED <<phase, gp, values, built, cache, tiebreak, models, ret, seen>>

\* vars() and reg(p) of the product and of the sum.
DescribeBoth ==
    /\ phase = "built"
    /\ IsNone(ret)
    /\ \E e \in ReduceSumErrors :
          ret' = Some([times_vars |-> KernelVars(TimesGP(PartsOf(gp)).nodes, 2),
                       plus_vars  |-> KernelVars(PlusGP(PartsOf(gp)).nodes, 2),
                       times_reg  |-> KernelReg(TimesGP(PartsOf(gp)).nodes, 2, values, e),
                       plus_reg   |-> KernelReg(PlusGP(PartsOf(gp)).nodes, 2, values, e)])
    /\ calls' = calls + 1
    /\ UNCHANGED <<phase, gp, values, built, cache, cov, tiebreak, models, seen>>

NextProduct == RunBoth \/ DescribeBoth

SpecProduct == InitProduct /\ [][NextProduct]_vars

\* C29: the kernel built with * evaluates to the elementwise sum of its
\* parts, the very value the kernel built with + over the same parts gives,
\* and the two have the same vars() and the same reg().
C29_ProductIsSum ==
    /\ ~IsNone(cov) =>
          /\ Get(cov).times = Get(cov).plus
          /\ \A i \in DOMAIN Get(cov).times : \A j \in DOMAIN Get(cov).times[i] :
                Get(cov).times[i][j] =
                    SumSeq([k \in DOMAIN Get(cov).parts |-> Get(cov).parts[k][i][j]])
    /\ ~IsNone(ret) =>
          /\ Get(ret).times_vars = Get(ret).plus_vars
          /\ Get(ret).times_reg = Get(ret).plus_reg

\* Both were evaluated and described; an entry of the product kernel is the
\* sum 2 + 3 of its parts' entries, not their product 6.
C29_Witness ==
    /\ ~IsNone(cov) /\ ~IsNone(ret)
    /\ Len(Get(cov).parts) = 2
    /\ \E i \in DOMAIN Get(cov).times : \E j \in DOMAIN Get(cov).times[i] :
          /\ Get(cov).parts[1][i][j] = 2 /\ Get(cov).parts[2][i][j] = 3
          /\ Get(cov).times[i][j] = 5

(***************************************************************************)
(* fit, mcmc and generate one after another from a fresh Model (SpecChain).*)
(***************************************************************************)
\* mcmc on a receiver that already holds draws: the draws are the initial
\* state of the chain, and the sampler either fails on their shape (works
\* is FALSE) or runs; a run returns through the same replace(...) as on a
\* receiver with scalar parameters.
McmcOnDraws(self, locs, vals, cats, samples, burnin, report_interval, chain, works) ==
    LET m      == models[self]
        acc    == AccStates(McmcBursts(samples, burnin, report_interval))
        posterior == Posterior(chain, acc, DOMAIN m.parameters)
        perm   == SortPerm(cats, Len(locs), tiebreak)
        data   == DataDict(locs, vals, cats, perm)
        marked == [models EXCEPT ![self].data = Some(data)]
        call   == [NoCall EXCEPT !.op = "mcmc", !.self = self, !.perm = perm,
                      !.args = [locs |-> locs, vals |-> vals, cats |-> cats,
                                samples |-> samples, burnin |-> burnin,
                                report_interval |-> report_interval]]
        check  == McmcCheck(samples, burnin, report_interval)
    IN  /\ ~IsNone(m.parameter_sample_size)
        /\ samples > 0
        /\ IF check # None
           THEN /\ models' = models
                /\ ret' = [call EXCEPT !.perm = <<>>, !.err = check]
           ELSE IF ~works
           THEN /\ models' = marked
                /\ ret' = [call EXCEPT !.err = "InvalidArgumentError"]
           ELSE /\ ReplaceOk(posterior)
                /\ Len(models) < MaxModels
                /\ models' = Append(marked,
                       Replaced(m, posterior, Some(samples),
                                Restore(data.locs, cats, perm),
                                Restore(data.vals, cats, perm),
                                IF IsNone(cats) THEN Nothing
                                ELSE Some(Restore(Get(data.cats), cats, perm))))
                /\ ret' = [call EXCEPT !.new = Len(models) + 1, !.chain = chain]

\* One freshly constructed Model without data.  seen[i] tells where Model
\* i came from: the receiver and the operation that returned it.
InitChain ==
    /\ phase = "chain"
    /\ gp = ModelGP
    /\ values = [nugget |-> <<1>>]
    /\ built \in PostInitOutcomes(gp, values)
    /\ cache = None /\ cov = None
    /\ tiebreak \in TieBreaks
    /\ models = <<NewModel(values, Nothing, Nothing, Nothing, Nothing, FALSE)>>
    /\ ret = NoCall
    /\ calls = 0
    /\ seen = <<[from |-> 0, by |-> "Model"]>>

Counted ==
    /\ calls < MaxChain
    /\ calls' = calls + 1
    /\ UNCHANGED <<phase, gp, values, built, cache, cov, tiebreak>>

Recorded ==
    seen' = IF ret'.new # 0 THEN Append(seen, [from |-> ret'.self, by |-> ret'.op])
            ELSE seen

ChainFit ==
    /\ Counted
    /\ \E self \in DOMAIN models, cats \in {Nothing, Some([i \in 1..MaxTrain |-> i % 2])} :
       \E path \in [1..1 -> SurfaceDicts(models[self].parameters)], works \in BOOLEAN :
          Fit(self, TrainLocs(MaxTrain), TrainVals(MaxTrain), cats, 1, path, works)
    /\ Recorded

ChainMcmc ==
    /\ Counted
    /\ \E self \in DOMAIN models, report_interval \in 1..2 :
       \E chain \in Chains(models[self].parameters, 1, 0, 1), works \in BOOLEAN :
          IF IsNone(models[self].parameter_sample_size)
          THEN works /\ Mcmc(self, TrainLocs(MaxTrain), TrainVals(MaxTrain), Nothing,
                             1, 0, report_interval, chain)
          ELSE McmcOnDraws(self, TrainLocs(MaxTrain), TrainVals(MaxTrain), Nothing,
                           1, 0, report_interval, chain, works)
    /\ Recorded

ChainGenerate ==
    /\ Counted
    /\ \E self \in DOMAIN models, sample \in {[i \in 1..MaxTrain |-> i % 2],
                                             [i \in 1..MaxTrain |-> 0]} :
          Generate(self, TrainLocs(MaxTrain), Nothing, sample)
    /\ Recorded

NextChain == ChainFit \/ ChainMcmc \/ ChainGenerate

SpecChain == InitChain /\ [][NextChain]_vars

\* Model i was returned by mcmc, or by a call on a Model that was.
RECURSIVE FromMcmc(_)
FromMcmc(i) == i > 1 /\ (seen[i].by = "mcmc" \/ FromMcmc(seen[i].from))

\* C30: over any sequence of fit, mcmc and generate calls from a fresh Model
\* without data, every Model a call returned holds observed data and every
\* Model that descends from an mcmc result has parameter_sample_size set;
\* every generate on a returned Model is rejected and leaves the Models as
\* they are, and every generate on the original Model is accepted and
\* returns a new Model, however many calls went before.
C30_DataStateMonotone ==
    /\ [](/\ IsNone(models[1].locs) /\ IsNone(models[1].vals) /\ ~Sampled(models[1])
          /\ \A i \in 2..Len(models) :
                /\ ~IsNone(models[i].locs) /\ ~IsNone(models[i].vals)
                /\ FromMcmc(i) => Sampled(models[i]))
    /\ [][ret'.op = "generate" =>
             IF ret'.self = 1
             THEN ret'.err = None /\ ret'.new = Len(models) + 1
             ELSE ret'.err # None /\ ret'.new = 0 /\ models' = models]_vars

\* generate was rejected on a Model returned by fit on an mcmc result,
\* after the original Model had been fitted on.
C30_Witness ==
    /\ ret.op = "generate" /\ ret.self = 3 /\ ret.err # None
    /\ seen[2] = [from |-> 1, by |-> "mcmc"]
    /\ seen[3] = [from |-> 2, by |-> "fit"]
    /\ Sampled(models[3])
    /\ ~IsNone(models[1].data)
====
